---- MODULE Spec2Model ----
(***************************************************************************)
(* Model of the blog scraper of doc-suggester (package main of the Go      *)
(* scraper: getAllBlogLinks, scrapeAll, loadCheckpoint, saveCheckpoint,    *)
(* main).                                                                  *)
(*                                                                         *)
(* Five specifications share this module:                                  *)
(*   Spec      a sequence of process runs of main() against the two files  *)
(*             (checkpoint.json, unchained-archive.md) and the site's      *)
(*             listing; a run can be interrupted at every step.            *)
(*   SpecPool  one call of scrapeAll, goroutine by goroutine.              *)
(*   SpecDiscover  one call of getAllBlogLinks, page by page, and what     *)
(*             main does with its result.                                  *)
(*   SpecLoad  the start of a run against any content of checkpoint.json.  *)
(*   SpecIO    runs in which the calls that write the files can fail.      *)
(*                                                                         *)
(* In Spec, scrapeAll is one step whose result is the operator scrapeAll;  *)
(* SpecPool establishes that the goroutines compute that result.  The      *)
(* environment of Spec: the site changes between runs, every extraction    *)
(* can fail, discovery can fail, and the process can be interrupted at     *)
(* every step; calls to the file system that are reached succeed.          *)
(***************************************************************************)
EXTENDS Integers, Sequences, FiniteSets, TLC

\* ------------------------------------------------------------------ bounds
\* Number of distinct slugs the site can list.
MaxSlugs == 2
\* Number of process runs in one behaviour (also the range of timestamps).
MaxRuns == 3
\* Longest input of scrapeAll in SpecPool.
MaxPosts == 3
\* Number of listing pages the site serves at most.
MaxPages == 2
\* Number of anchors on one listing page at most.
MaxLinks == 2
\* Number of tokens of a Markdown text at most.
MaxText == 4
\* Length of the list of p, div and span texts of a page.
MaxParas == 2
MaxTimes == 2
MaxRegions == 2
\* Seconds that one call of Generate is followed.
MaxTime == 7
\* The backoff of generateWithRetry, in seconds.
Backoff == 5
\* Size of the semaphore of scrapeAll. The program's constant is 10; the pool
\* is scaled down with its input, so that MaxPosts articles saturate it.
workers == 2

Slugs == 1..MaxSlugs

\* ------------------------------------------------------------- run state
VARIABLES
    listing,    \* the site: what getAllBlogLinks returns now (slugs in order)
    cpFile,     \* output/checkpoint.json
    archive,    \* output/unchained-archive.md
    clock,      \* number of runs started; time.Now() of the current run
    pc,         \* position of the process inside main(); "idle" = no process
    force,      \* the -force flag of the current run
    cp,         \* main's variable cp
    allPosts,   \* main's variable allPosts
    toScrape,   \* main's variable toScrape
    scraped,    \* main's variable scraped
    rebuild,    \* main's variable rebuild
    wi,         \* index of the archive writing loop over allPosts
    loaded,     \* history: the ledger loadCheckpoint returned in this run
    cpStart,    \* history: checkpoint.json as it was when the process started
    oldSecs,    \* history: the sections the archive held when this run opened it
    fetched,    \* history: slugs whose article was fetched in this run
    okHist,     \* history: <<slug, run>> of the extractions without error
    prev        \* history: how the previous process ended, and what failed in it

runVars == <<listing, cpFile, archive, clock, pc, force, cp, allPosts,
             toScrape, scraped, rebuild, wi, loaded, cpStart, oldSecs, fetched,
             okHist, prev>>

\* -------------------------------------------- scrapeAll, one call in detail
VARIABLES
    posts,      \* the argument of scrapeAll
    di,         \* the dispatching loop: index of the next post, 0 = not called
    w,          \* w[i]: position of the goroutine started for posts[i]
    res,        \* res[i]: the variable r of that goroutine
    sem,        \* number of tokens in the channel sem
    wg,         \* counter of the WaitGroup
    completed,  \* the atomic counter completed
    ch,         \* content of the buffered channel ch
    closed,     \* ch has been closed
    out,        \* the map out
    returned,   \* scrapeAll has returned out
    calls       \* history: calls[i] = calls of downloadAndConvertPost on posts[i]

poolVars == <<posts, di, w, res, sem, wg, completed, ch, closed, out, returned,
              calls>>

\* ------------------------------------- getAllBlogLinks, one call in detail
VARIABLES
    page,       \* the loop variable page; 0 = getAllBlogLinks not called
    gpc,        \* position inside getAllBlogLinks, or what main did with its result
    doc,        \* the parsed listing page: its anchors in document order, its button
    foundPosts, \* the variable posts of getAllBlogLinks
    seen,       \* the map seen
    listErr,    \* the error returned: the page whose fetch failed, 0 = nil
    before,     \* history: posts as it was when the current page was fetched
    nexts       \* history: nexts[n] = the next-page control found on page n

discVars == <<page, gpc, doc, foundPosts, seen, listErr, before, nexts>>

\* ------------------------------------------------- file-system failures
VARIABLES
    ioFail      \* history: the file operations that failed in run ioFail.run

ioVars == <<ioFail>>

\* ------------------------------------------- cleanMarkdown, applied twice
VARIABLES
    mdTitle,    \* the argument title
    mdText,     \* the text: the argument raw, then what cleanMarkdown returned
    mdApplied,  \* how many times cleanMarkdown has been applied to the text
    mdFirst     \* history: what the first application returned

cleanVars == <<mdTitle, mdText, mdApplied, mdFirst>>

\* --------------------------------- Client.Generate, one call in detail
VARIABLES
    gpos,       \* position inside generateWithRetry
    attempt,    \* the loop variable attempt
    lastErr,    \* the variable lastErr
    ctxDone,    \* ctx has been cancelled
    elapsed,    \* the time, in seconds since the call
    timer,      \* when the channel of time.After delivers
    genRes,     \* what Generate returned
    genCalls,   \* history: the times at which doGenerate was called
    cancelledAt \* history: where the call was when ctx was cancelled

genVars == <<gpos, attempt, lastErr, ctxDone, elapsed, timer, genRes, genCalls,
             cancelledAt>>

\* ------------------------- downloadAndConvertPost, one call in detail
VARIABLES
    xpos,       \* position inside downloadAndConvertPost
    xresp,      \* what the server does with the request of fetchPage
    xdoc,       \* the page: matched content selections, time elements, p/div/span texts
    xdate,      \* the variable date
    xres        \* the scrapeResult returned (its err and date)

dateVars == <<xpos, xresp, xdoc, xdate, xres>>

\* ------------------------------------- runs, with the site's responses
VARIABLES
    httpHist    \* history: the responses with an error status whose body
                \* was converted, in the last run that scraped

httpVars == <<httpHist>>

vars == <<runVars, poolVars, discVars, ioVars, cleanVars, genVars,
         dateVars, httpVars>>

\* ---------------------------------------------------------------- helpers
Range(s) == {s[i] : i \in 1..Len(s)}

\* the empty checkpoint, make(checkpoint)
EmptyLedger == [s \in {} |-> 0]

\* ------------------------------------------------------------------ files
\* checkpoint.json: absent, a complete JSON ledger, or (after an interrupted
\* os.WriteFile) a truncated file that is no JSON document.
MissingFile == [kind |-> "missing", data |-> EmptyLedger]
PartialFile == [kind |-> "partial", data |-> EmptyLedger]
JsonFile(ledger) == [kind |-> "json", data |-> ledger]
\* Files the program does not write itself: one that cannot be read, and a
\* JSON document in which a value has a type that checkpointEntry does not
\* take (a number for an entry or for a field). json.Unmarshal stores what
\* it can decode, the zero value for the rest, and then returns an
\* UnmarshalTypeError: data is what it has stored by then.
UnreadableFile == [kind |-> "unreadable", data |-> EmptyLedger]
MistypedFile(ledger) == [kind |-> "mistyped", data |-> ledger]

\* unchained-archive.md: absent, or the header followed by sections; a
\* section is represented by the slug of its article.
NoArchive == [exists |-> FALSE, secs |-> <<>>]

LedgerSlugs(file) == DOMAIN file.data
ArchiveSlugs(a) == Range(a.secs)

\* lists of at most n elements of S
RECURSIVE SeqsUpTo(_, _)
SeqsUpTo(S, n) ==
    IF n = 0 THEN {<<>>}
    ELSE LET shorter == SeqsUpTo(S, n - 1)
         IN  shorter \cup {Append(q, x) : q \in shorter, x \in S}

\* ------------------------------------------------------------ the site
RECURSIVE Perms(_)
Perms(S) ==
    IF S = {} THEN {<<>>}
    ELSE UNION {{<<x>> \o p : p \in Perms(S \ {x})} : x \in S}

\* what one discovery pass can return: distinct slugs in first-seen order
Listings == UNION {Perms(S) : S \in SUBSET Slugs}

\* ------------------------------------------------------- pure functions
\* loadCheckpoint: cp starts as the empty map and is returned as it is when
\* the file cannot be read or json.Unmarshal finds a syntax error (it checks
\* the syntax of the whole input first); otherwise cp is what json.Unmarshal
\* stored in it, with or without an error
loadCheckpoint(file) ==
    IF file.kind \in {"json", "mistyped"} THEN file.data ELSE EmptyLedger

\* (mutant) the loop forgets to look the slug up in cp
notInCheckpoint_all(ps, ledger) == ps

\* the loop of main that keeps the posts whose slug is not in cp
RECURSIVE notInCheckpoint(_, _)
notInCheckpoint(ps, ledger) ==
    IF ps = <<>> THEN <<>>
    ELSE (IF Head(ps) \notin DOMAIN ledger THEN <<Head(ps)>> ELSE <<>>)
         \o notInCheckpoint(Tail(ps), ledger)

\* (mutant) -force does not widen toScrape
planToScrape_diffOnly(f, ps, ledger) == notInCheckpoint(ps, ledger)

\* main, on -force: toScrape = allPosts, else the posts not in the checkpoint
planToScrape(f, ps, ledger) ==
    IF f THEN ps ELSE notInCheckpoint(ps, ledger)

\* (mutant) -force keeps the loaded checkpoint
planCheckpoint_keep(f, ledger) == ledger

\* main, on -force: cp = make(checkpoint)
planCheckpoint(f, ledger) ==
    IF f THEN EmptyLedger ELSE ledger

\* downloadAndConvertPost, by its outcome: a result with or without error
downloadAndConvertPost(p, ok) == [slug |-> p, err |-> ~ok]

\* (mutant) the collecting loop does not test r.err
Collect_keepErrors(o, r) ==
    [s \in DOMAIN o \cup {r.slug} |-> IF s = r.slug THEN r ELSE o[s]]

\* the body of scrapeAll's collecting loop: out[r.slug] = r if r.err == nil
Collect(o, r) ==
    IF r.err = FALSE
    THEN [s \in DOMAIN o \cup {r.slug} |-> IF s = r.slug THEN r ELSE o[s]]
    ELSE o

\* scrapeAll as a function of its input and of the extractions' outcomes
RECURSIVE CollectAll(_, _, _)
CollectAll(o, ps, okSet) ==
    IF ps = <<>> THEN o
    ELSE CollectAll(Collect(o, downloadAndConvertPost(Head(ps), Head(ps) \in okSet)),
                    Tail(ps), okSet)

\* (mutant) scrapeAll returns a result for every post, failed or not
scrapeAll_everyPost(ps, okSet) ==
    [s \in Range(ps) |-> downloadAndConvertPost(s, s \in okSet)]

scrapeAll(ps, okSet) == CollectAll(EmptyLedger, ps, okSet)

\* (mutant) every entry of the ledger is stamped again
updateCheckpoint_restamp(ledger, results, now) ==
    [s \in DOMAIN ledger \cup DOMAIN results |-> [ScrapedAt |-> now]]

\* (mutant) the loop over scraped adds nothing to cp
updateCheckpoint_noAdd(ledger, results, now) == ledger

\* main's loop "for slug, r := range scraped { cp[slug] = checkpointEntry{...} }"
updateCheckpoint(ledger, results, now) ==
    [s \in DOMAIN ledger \cup DOMAIN results |->
        IF s \in DOMAIN results THEN [ScrapedAt |-> now] ELSE ledger[s]]

\* (mutant) the writing loop runs through allPosts backwards
postAt_reversed(ps, i) == ps[Len(ps) + 1 - i]

\* the post of iteration i of "for _, p := range allPosts"
postAt(ps, i) == ps[i]

\* (mutant) a section is put in front of the sections already written
writeSection_prepend(secs, p, results) ==
    IF p \in DOMAIN results THEN <<p>> \o secs ELSE secs

\* (mutant) a section is written for every listed post
writeSection_all(secs, p, results) == Append(secs, p)

\* one iteration of the writing loop: a section for p if p was scraped
writeSection(secs, p, results) ==
    IF p \in DOMAIN results THEN Append(secs, p) ELSE secs

\* -------------------------------------------------------------- history
\* prev.status: "none" (no run yet), "ok" (exit status 0), "fatal" (log.Fatal,
\* exit status 1) or "crash" (interrupted); of a run that ended "ok",
\* prev.force is its flag and prev.failed the slugs whose extraction returned
\* an error; prev.changed: the site's listing changed since that run ended.
NoPrev == [status |-> "none", force |-> FALSE, failed |-> {}, changed |-> FALSE]

\* the slugs whose extraction returned no error in the current run
okNow == {s \in Slugs : <<s, clock>> \in okHist}

\* the slugs of this run whose extraction returned an error
Failed == fetched \ okNow

Summary(status) ==
    [status |-> status,
     force |-> IF status = "ok" THEN force ELSE FALSE,
     failed |-> IF status = "ok" THEN Failed ELSE {},
     changed |-> FALSE]

\* okHist keeps the successes an entry of checkpoint.json can still name:
\* an entry stamped by a run that is over is never created later.
StillNamed(file) ==
    {e \in okHist : e[1] \in DOMAIN file.data /\ file.data[e[1]].ScrapedAt = e[2]}

\* -------------------------------------------------------------- Init
InitRun ==
    /\ listing \in Listings
    /\ cpFile = MissingFile
    /\ archive = NoArchive
    /\ clock = 0
    /\ pc = "idle"
    /\ force = FALSE
    /\ cp = EmptyLedger
    /\ allPosts = <<>>
    /\ toScrape = <<>>
    /\ scraped = EmptyLedger
    /\ rebuild = FALSE
    /\ wi = 0
    /\ loaded = EmptyLedger
    /\ cpStart = MissingFile
    /\ oldSecs = <<>>
    /\ fetched = {}
    /\ okHist = {}
    /\ prev = NoPrev

\* no call of scrapeAll is being followed in detail
PoolIdle ==
    /\ posts = <<>>
    /\ di = 0
    /\ w = <<>>
    /\ res = <<>>
    /\ sem = 0
    /\ wg = 0
    /\ completed = 0
    /\ ch = <<>>
    /\ closed = FALSE
    /\ out = EmptyLedger
    /\ returned = FALSE
    /\ calls = <<>>

\* a page without anchors and without button; also: no page parsed yet
NoDoc == [links |-> <<>>, next |-> "none"]

\* getAllBlogLinks is not being followed step by step
DiscIdle ==
    /\ page = 0
    /\ gpc = "none"
    /\ doc = NoDoc
    /\ foundPosts = <<>>
    /\ seen = {}
    /\ listErr = 0
    /\ before = <<>>
    /\ nexts = <<>>

\* no file operation has failed
IoIdle == ioFail = [run |-> 0, kinds |-> {}]

\* what doGenerate returns in attempt n, and the errors returned to the caller
genText(n) == [text |-> IF n = 0 THEN "text0" ELSE "text1", err |-> "nil"]
genError(n) == [text |-> "", err |-> IF n = 0 THEN "generate0" ELSE "generate1"]
ctxErr == [text |-> "", err |-> "ctx"]
NoResult == [text |-> "", err |-> "none"]

\* Generate is not being followed
GenIdle ==
    /\ gpos = "none"
    /\ attempt = 0
    /\ lastErr = "nil"
    /\ ctxDone = FALSE
    /\ elapsed = 0
    /\ timer = 0
    /\ genRes = NoResult
    /\ genCalls = <<>>
    /\ cancelledAt = "never"

\* downloadAndConvertPost is not being followed
NoResponse == [transport |-> "ok", status |-> 200]
NoPage == [regions |-> <<>>, times |-> <<>>, paras |-> <<>>]
NoExtract == [err |-> "none", date |-> <<>>]
DateIdle ==
    /\ xpos = "none"
    /\ xresp = NoResponse
    /\ xdoc = NoPage
    /\ xdate = <<>>
    /\ xres = NoExtract

\* no response of the site has been followed
HttpIdle == httpHist = {}

\* cleanMarkdown is not being followed
CleanIdle ==
    /\ mdTitle = "a"
    /\ mdText = <<>>
    /\ mdApplied = 0
    /\ mdFirst = <<>>

Init ==
    /\ InitRun /\ PoolIdle /\ DiscIdle /\ IoIdle
    /\ CleanIdle /\ GenIdle /\ DateIdle /\ HttpIdle

\* the process is gone, its variables with it
ProcessGone ==
    /\ pc' = "idle"
    /\ force' = FALSE
    /\ cp' = EmptyLedger
    /\ allPosts' = <<>>
    /\ toScrape' = <<>>
    /\ scraped' = EmptyLedger
    /\ rebuild' = FALSE
    /\ wi' = 0
    /\ loaded' = EmptyLedger
    /\ cpStart' = MissingFile
    /\ oldSecs' = <<>>
    /\ fetched' = {}
    /\ okHist' = StillNamed(cpFile)

\* ------------------------------------------------------------ actions
\* the site publishes, removes or reorders articles between two runs
SiteChange ==
    /\ pc = "idle"
    /\ clock < MaxRuns
    /\ \E l \in Listings \ {listing} : listing' = l
    /\ prev' = [prev EXCEPT !.changed = TRUE]
    /\ UNCHANGED <<cpFile, archive, clock, pc, force, cp, allPosts, toScrape,
                   scraped, rebuild, wi, loaded, cpStart, oldSecs, fetched,
                   okHist>>

\* the process starts: flag.Parse, os.MkdirAll
StartRun ==
    /\ pc = "idle"
    /\ clock < MaxRuns
    /\ \E f \in BOOLEAN : force' = f
    /\ clock' = clock + 1
    /\ cpStart' = cpFile
    /\ pc' = "load"
    /\ UNCHANGED <<listing, cpFile, archive, cp, allPosts, toScrape, scraped,
                   rebuild, wi, loaded, oldSecs, fetched, okHist, prev>>

\* cp := loadCheckpoint()
LoadCheckpoint ==
    /\ pc = "load"
    /\ cp' = loadCheckpoint(cpFile)
    /\ loaded' = loadCheckpoint(cpFile)
    /\ pc' = "discover"
    /\ UNCHANGED <<listing, cpFile, archive, clock, force, allPosts,
                   toScrape, scraped, rebuild, wi, cpStart, oldSecs, fetched,
                   okHist, prev>>

\* allPosts, err := getAllBlogLinks(): the listing was read
Discover ==
    /\ pc = "discover"
    /\ Len(listing) > 0
    /\ allPosts' = listing
    /\ pc' = "plan"
    /\ UNCHANGED <<listing, cpFile, archive, clock, force, cp, toScrape,
                   scraped, rebuild, wi, loaded, cpStart, oldSecs, fetched,
                   okHist, prev>>

\* getAllBlogLinks returned an error, or no post: log.Fatal
DiscoverFatal ==
    /\ pc = "discover"
    /\ prev' = Summary("fatal")
    /\ ProcessGone
    /\ UNCHANGED <<listing, cpFile, archive, clock>>

\* (mutant) main goes on with an empty toScrape
nothingToDo_never(ts) == FALSE

\* "if len(toScrape) == 0": main logs "Nothing to do" and returns
nothingToDo(ts) == Len(ts) = 0

\* toScrape: everything on -force (and cp is emptied), else the unknown slugs
Plan ==
    /\ pc = "plan"
    /\ toScrape' = planToScrape(force, allPosts, cp)
    /\ cp' = planCheckpoint(force, cp)
    /\ pc' = IF nothingToDo(toScrape') THEN "done" ELSE "scrape"
    /\ UNCHANGED <<listing, cpFile, archive, clock, force, allPosts, scraped,
                   rebuild, wi, loaded, cpStart, oldSecs, fetched, okHist,
                   prev>>

\* scraped := scrapeAll(toScrape); each extraction succeeds or fails
Scrape ==
    /\ pc = "scrape"
    /\ \E okSet \in SUBSET Range(toScrape) :
          /\ scraped' = scrapeAll(toScrape, okSet)
          /\ okHist' = okHist \cup {<<s, clock>> : s \in okSet}
    /\ fetched' = Range(toScrape)
    /\ pc' = "update"
    /\ UNCHANGED <<listing, cpFile, archive, clock, force, cp, allPosts,
                   toScrape, rebuild, wi, loaded, cpStart, oldSecs, prev>>

\* the checkpoint gets an entry for every scraped slug
UpdateCheckpoint ==
    /\ pc = "update"
    /\ cp' = updateCheckpoint(cp, scraped, clock)
    /\ pc' = "save"
    /\ UNCHANGED <<listing, cpFile, archive, clock, force, allPosts,
                   toScrape, scraped, rebuild, wi, loaded, cpStart, oldSecs,
                   fetched, okHist, prev>>

\* saveCheckpoint, first half: os.WriteFile opens the file with O_TRUNC
SaveTruncate ==
    /\ pc = "save"
    /\ cpFile' = PartialFile
    /\ pc' = "write"
    /\ UNCHANGED <<listing, archive, clock, force, cp, allPosts, toScrape,
                   scraped, rebuild, wi, loaded, cpStart, oldSecs, fetched,
                   okHist, prev>>

\* saveCheckpoint, second half: os.WriteFile writes the document
SaveWrite ==
    /\ pc = "write"
    /\ cpFile' = JsonFile(cp)
    /\ pc' = "stat"
    /\ UNCHANGED <<listing, archive, clock, force, cp, allPosts, toScrape,
                   scraped, rebuild, wi, loaded, cpStart, oldSecs, fetched,
                   okHist, prev>>

\* (mutant) the archive is rebuilt only when it is missing
isRebuild_missingOnly(f, a) == ~a.exists

\* rebuild := *force || os.IsNotExist(archiveErr)
isRebuild(f, a) == f \/ ~a.exists

\* os.Create and the header (rebuild), or os.OpenFile with O_APPEND
OpenArchive ==
    /\ pc = "stat"
    /\ rebuild' = isRebuild(force, archive)
    /\ archive' = IF rebuild' THEN [exists |-> TRUE, secs |-> <<>>] ELSE archive
    /\ oldSecs' = archive'.secs
    /\ wi' = 1
    /\ pc' = "sections"
    /\ UNCHANGED <<listing, cpFile, clock, force, cp, allPosts, toScrape,
                   scraped, loaded, cpStart, fetched, okHist, prev>>

\* one iteration of "for _, p := range allPosts"
WriteSection ==
    /\ pc = "sections"
    /\ wi <= Len(allPosts)
    /\ archive' = [archive EXCEPT !.secs = writeSection(@, postAt(allPosts, wi), scraped)]
    /\ wi' = wi + 1
    /\ UNCHANGED <<listing, cpFile, clock, pc, force, cp, allPosts, toScrape,
                   scraped, rebuild, loaded, cpStart, oldSecs, fetched,
                   okHist, prev>>

\* the loop is over: main returns
EndSections ==
    /\ pc = "sections"
    /\ wi > Len(allPosts)
    /\ pc' = "done"
    /\ UNCHANGED <<listing, cpFile, archive, clock, force, cp, allPosts,
                   toScrape, scraped, rebuild, wi, loaded, cpStart, oldSecs,
                   fetched, okHist, prev>>

\* (mutant) main ends with log.Fatal when an extraction has failed
Exit_fatalOnFailure ==
    /\ pc = "done"
    /\ prev' = Summary(IF Failed # {} THEN "fatal" ELSE "ok")
    /\ ProcessGone
    /\ UNCHANGED <<listing, cpFile, archive, clock>>

\* the process exits with status 0
Exit ==
    /\ pc = "done"
    /\ prev' = Summary("ok")
    /\ ProcessGone
    /\ UNCHANGED <<listing, cpFile, archive, clock>>

\* the process is interrupted (signal, power loss) at any point of a run
Crash ==
    /\ pc \notin {"idle", "done"}
    /\ prev' = Summary("crash")
    /\ ProcessGone
    /\ UNCHANGED <<listing, cpFile, archive, clock>>

Next ==
    \/ SiteChange
          /\ UNCHANGED <<poolVars, discVars, ioVars, cleanVars, genVars,
                         dateVars, httpVars>>
    \/ StartRun
          /\ UNCHANGED <<poolVars, discVars, ioVars, cleanVars, genVars,
                         dateVars, httpVars>>
    \/ LoadCheckpoint
          /\ UNCHANGED <<poolVars, discVars, ioVars, cleanVars, genVars,
                         dateVars, httpVars>>
    \/ Discover
          /\ UNCHANGED <<poolVars, discVars, ioVars, cleanVars, genVars,
                         dateVars, httpVars>>
    \/ DiscoverFatal
          /\ UNCHANGED <<poolVars, discVars, ioVars, cleanVars, genVars,
                         dateVars, httpVars>>
    \/ Plan
          /\ UNCHANGED <<poolVars, discVars, ioVars, cleanVars, genVars,
                         dateVars, httpVars>>
    \/ Scrape
          /\ UNCHANGED <<poolVars, discVars, ioVars, cleanVars, genVars,
                         dateVars, httpVars>>
    \/ UpdateCheckpoint
          /\ UNCHANGED <<poolVars, discVars, ioVars, cleanVars, genVars,
                         dateVars, httpVars>>
    \/ SaveTruncate
          /\ UNCHANGED <<poolVars, discVars, ioVars, cleanVars, genVars,
                         dateVars, httpVars>>
    \/ SaveWrite
          /\ UNCHANGED <<poolVars, discVars, ioVars, cleanVars, genVars,
                         dateVars, httpVars>>
    \/ OpenArchive
          /\ UNCHANGED <<poolVars, discVars, ioVars, cleanVars, genVars,
                         dateVars, httpVars>>
    \/ WriteSection
          /\ UNCHANGED <<poolVars, discVars, ioVars, cleanVars, genVars,
                         dateVars, httpVars>>
    \/ EndSections
          /\ UNCHANGED <<poolVars, discVars, ioVars, cleanVars, genVars,
                         dateVars, httpVars>>
    \/ Exit
          /\ UNCHANGED <<poolVars, discVars, ioVars, cleanVars, genVars,
                         dateVars, httpVars>>
    \/ Crash
          /\ UNCHANGED <<poolVars, discVars, ioVars, cleanVars, genVars,
                         dateVars, httpVars>>

Spec == Init /\ [][Next]_vars

\* runs that are never interrupted (and whose file calls succeed)
NextNoCrash ==
    \/ SiteChange
          /\ UNCHANGED <<poolVars, discVars, ioVars, cleanVars, genVars,
                         dateVars, httpVars>>
    \/ StartRun
          /\ UNCHANGED <<poolVars, discVars, ioVars, cleanVars, genVars,
                         dateVars, httpVars>>
    \/ LoadCheckpoint
          /\ UNCHANGED <<poolVars, discVars, ioVars, cleanVars, genVars,
                         dateVars, httpVars>>
    \/ Discover
          /\ UNCHANGED <<poolVars, discVars, ioVars, cleanVars, genVars,
                         dateVars, httpVars>>
    \/ DiscoverFatal
          /\ UNCHANGED <<poolVars, discVars, ioVars, cleanVars, genVars,
                         dateVars, httpVars>>
    \/ Plan
          /\ UNCHANGED <<poolVars, discVars, ioVars, cleanVars, genVars,
                         dateVars, httpVars>>
    \/ Scrape
          /\ UNCHANGED <<poolVars, discVars, ioVars, cleanVars, genVars,
                         dateVars, httpVars>>
    \/ UpdateCheckpoint
          /\ UNCHANGED <<poolVars, discVars, ioVars, cleanVars, genVars,
                         dateVars, httpVars>>
    \/ SaveTruncate
          /\ UNCHANGED <<poolVars, discVars, ioVars, cleanVars, genVars,
                         dateVars, httpVars>>
    \/ SaveWrite
          /\ UNCHANGED <<poolVars, discVars, ioVars, cleanVars, genVars,
                         dateVars, httpVars>>
    \/ OpenArchive
          /\ UNCHANGED <<poolVars, discVars, ioVars, cleanVars, genVars,
                         dateVars, httpVars>>
    \/ WriteSection
          /\ UNCHANGED <<poolVars, discVars, ioVars, cleanVars, genVars,
                         dateVars, httpVars>>
    \/ EndSections
          /\ UNCHANGED <<poolVars, discVars, ioVars, cleanVars, genVars,
                         dateVars, httpVars>>
    \/ Exit
          /\ UNCHANGED <<poolVars, discVars, ioVars, cleanVars, genVars,
                         dateVars, httpVars>>

SpecNoCrash == Init /\ [][NextNoCrash]_vars

\* ======================================= runs with file-system failures
\* Spec with another environment: the listing stays as it is and can be
\* read, the process is not interrupted, and the calls that write the two
\* files can return an error.

\* the operation k has failed in the current run
failNow(k) ==
    [run |-> clock,
     kinds |-> (IF ioFail.run = clock THEN ioFail.kinds ELSE {}) \cup {k}]

\* saveCheckpoint: os.WriteFile cannot open the file; the error is logged
SaveOpenFails ==
    /\ pc = "save"
    /\ ioFail' = failNow("checkpoint")
    /\ pc' = "stat"
    /\ UNCHANGED <<listing, cpFile, archive, clock, force, cp, allPosts,
                   toScrape, scraped, rebuild, wi, loaded, cpStart, oldSecs,
                   fetched, okHist, prev>>

\* saveCheckpoint: os.WriteFile has truncated the file and its write fails;
\* the error is logged
SaveWriteFails ==
    /\ pc = "write"
    /\ ioFail' = failNow("checkpoint")
    /\ pc' = "stat"
    /\ UNCHANGED <<listing, cpFile, archive, clock, force, cp, allPosts,
                   toScrape, scraped, rebuild, wi, loaded, cpStart, oldSecs,
                   fetched, okHist, prev>>

\* os.Create (rebuild) or os.OpenFile (append) returns an error: log.Fatalf
ArchiveOpenFails ==
    /\ pc = "stat"
    /\ ioFail' = failNow("archive")
    /\ prev' = Summary("fatal")
    /\ ProcessGone
    /\ UNCHANGED <<listing, cpFile, archive, clock>>

\* f.WriteString(formatPost(r)) fails: its result is not looked at
SectionWriteFails ==
    /\ pc = "sections"
    /\ wi <= Len(allPosts)
    /\ postAt(allPosts, wi) \in DOMAIN scraped
    /\ ioFail' = failNow("section")
    /\ wi' = wi + 1
    /\ UNCHANGED <<listing, cpFile, archive, clock, pc, force, cp, allPosts,
                   toScrape, scraped, rebuild, loaded, cpStart, oldSecs,
                   fetched, okHist, prev>>

\* the process starts; the failures multiply the contents of the two
\* files, so the behaviours of SpecIO have one run less than those of Spec
StartRunIO == clock + 1 < MaxRuns /\ StartRun

NextIO ==
    \/ StartRunIO
          /\ UNCHANGED <<poolVars, discVars, ioVars, cleanVars, genVars,
                         dateVars, httpVars>>
    \/ LoadCheckpoint
          /\ UNCHANGED <<poolVars, discVars, ioVars, cleanVars, genVars,
                         dateVars, httpVars>>
    \/ Discover
          /\ UNCHANGED <<poolVars, discVars, ioVars, cleanVars, genVars,
                         dateVars, httpVars>>
    \/ DiscoverFatal
          /\ UNCHANGED <<poolVars, discVars, ioVars, cleanVars, genVars,
                         dateVars, httpVars>>
    \/ Plan
          /\ UNCHANGED <<poolVars, discVars, ioVars, cleanVars, genVars,
                         dateVars, httpVars>>
    \/ Scrape
          /\ UNCHANGED <<poolVars, discVars, ioVars, cleanVars, genVars,
                         dateVars, httpVars>>
    \/ UpdateCheckpoint
          /\ UNCHANGED <<poolVars, discVars, ioVars, cleanVars, genVars,
                         dateVars, httpVars>>
    \/ SaveTruncate
          /\ UNCHANGED <<poolVars, discVars, ioVars, cleanVars, genVars,
                         dateVars, httpVars>>
    \/ SaveWrite
          /\ UNCHANGED <<poolVars, discVars, ioVars, cleanVars, genVars,
                         dateVars, httpVars>>
    \/ OpenArchive
          /\ UNCHANGED <<poolVars, discVars, ioVars, cleanVars, genVars,
                         dateVars, httpVars>>
    \/ WriteSection
          /\ UNCHANGED <<poolVars, discVars, ioVars, cleanVars, genVars,
                         dateVars, httpVars>>
    \/ EndSections
          /\ UNCHANGED <<poolVars, discVars, ioVars, cleanVars, genVars,
                         dateVars, httpVars>>
    \/ Exit
          /\ UNCHANGED <<poolVars, discVars, ioVars, cleanVars, genVars,
                         dateVars, httpVars>>
    \/ SaveOpenFails
          /\ UNCHANGED <<poolVars, discVars, cleanVars, genVars, dateVars,
                         httpVars>>
    \/ SaveWriteFails
          /\ UNCHANGED <<poolVars, discVars, cleanVars, genVars, dateVars,
                         httpVars>>
    \/ ArchiveOpenFails
          /\ UNCHANGED <<poolVars, discVars, cleanVars, genVars, dateVars,
                         httpVars>>
    \/ SectionWriteFails
          /\ UNCHANGED <<poolVars, discVars, cleanVars, genVars, dateVars,
                         httpVars>>

SpecIO == Init /\ [][NextIO]_vars

\* ================================================ cleanMarkdown in detail
\* A Markdown text is a list of tokens; a token is a piece of text that the
\* cleanup expressions take or leave as a whole:
\*   "sp"     a space                    "nl"     a line feed
\*   "x"      text that no expression matches
\*   "BC"     [All Articles](/unchained)
\*   "DATE"   a date such as March 5, 2024
\*   "#a"     the heading "# a" (a is a title)
\*   "SHARE"  Share this article         "REL"    Related articles
\*   "WANT"   ## Want to learn more about Chainguard?
\*   "CTA"    Chainguard provides a secure foundation
\*   "GIT"    [Get in touch]
\*   "READY"  _Ready to get started
\*   "IMG"    ![](/_next/image?url=...)
Tokens ==
    {"sp", "nl", "x", "BC", "DATE", "#a", "SHARE", "REL", "WANT", "CTA", "GIT",
     "READY", "IMG"}

\* the titles: "a" has its heading among the tokens, "b" has not
Titles == {"a", "b"}

\* the texts of at most n tokens given to cleanMarkdown
Texts(n) == SeqsUpTo(Tokens, n)

\* s[i], or "" past the end of s
At(s, i) == IF i >= 1 /\ i <= Len(s) THEN s[i] ELSE ""

\* (?m)^ at position i
atLineStart(s, i) == i = 1 \/ s[i - 1] = "nl"

\* the last index of the run of tokens of S that starts at i; i - 1 if none
RECURSIVE runEnd(_, _, _)
runEnd(s, i, S) == IF At(s, i) \in S THEN runEnd(s, i + 1, S) ELSE i - 1

\* the index of the first token of S at or after i; 0 if none
RECURSIVE firstOf(_, _, _)
firstOf(s, i, S) ==
    IF i > Len(s) THEN 0 ELSE IF s[i] \in S THEN i ELSE firstOf(s, i + 1, S)

\* the index of the last "nl" in i..j; 0 if none
RECURSIVE lastNl(_, _, _)
lastNl(s, i, j) ==
    IF j < i THEN 0 ELSE IF s[j] = "nl" THEN j ELSE lastNl(s, i, j - 1)

\* the tokens whose text ends with ")"
EndInParen == {"BC", "IMG"}

\* the end of the match of expression re that starts at position i of s, 0
\* if re does not match there
matchEnd(re, s, i, t) ==
    CASE re = "reBreadcrumb" ->
           IF atLineStart(s, i) /\ s[i] = "BC" /\ At(s, i + 1) = "nl"
           THEN runEnd(s, i + 1, {"nl"}) ELSE 0
      [] re = "reDateLine" ->
           IF atLineStart(s, i) /\ s[i] = "DATE" /\ At(s, i + 1) = "nl"
           THEN runEnd(s, i + 1, {"nl"}) ELSE 0
      [] re = "reH1" ->
           IF atLineStart(s, i) /\ t = "a" /\ s[i] = "#a"
           THEN lastNl(s, i + 1, runEnd(s, i + 1, {"sp", "nl"})) ELSE 0
      [] re = "reShareFooter" ->
           IF s[i] = "nl" /\ At(s, i + 1) = "SHARE" THEN Len(s) ELSE 0
      [] re = "reRelated" ->
           IF s[i] = "nl" /\ At(s, i + 1) = "REL" /\ At(s, i + 2) = "nl"
           THEN Len(s) ELSE 0
      [] re = "reWantMore" ->
           IF s[i] = "nl" /\ At(s, i + 1) = "WANT" THEN Len(s) ELSE 0
      [] re = "reCGCta" ->
           IF s[i] = "nl" /\ At(s, i + 1) = "CTA" /\ firstOf(s, i + 2, {"GIT"}) # 0
           THEN firstOf(s, firstOf(s, i + 2, {"GIT"}) + 1, {"nl"}) ELSE 0
      [] re = "reReadyStart" ->
           IF s[i] = "nl" /\ At(s, i + 1) = "READY"
           THEN firstOf(s, i + 2, {"nl"}) ELSE 0
      [] re = "reNextImage" ->
           IF /\ atLineStart(s, i)
              /\ s[i] = "IMG"
              /\ firstOf(s, i + 1, {"nl"}) # 0
              /\ s[firstOf(s, i + 1, {"nl"}) - 1] \in EndInParen
           THEN firstOf(s, i + 1, {"nl"}) ELSE 0
      [] re = "reExcessBlanks" ->
           IF s[i] = "nl" /\ runEnd(s, i, {"nl"}) >= i + 2
           THEN runEnd(s, i, {"nl"}) ELSE 0

\* re.ReplaceAllString(s, repl): the matches from left to right, from
\* position i on; acc is the output so far
RECURSIVE replaceFrom(_, _, _, _, _, _)
replaceFrom(re, s, i, t, repl, acc) ==
    IF i > Len(s) THEN acc
    ELSE LET e == matchEnd(re, s, i, t)
         IN  IF e # 0 THEN replaceFrom(re, s, e + 1, t, repl, acc \o repl)
             ELSE replaceFrom(re, s, i + 1, t, repl, Append(acc, s[i]))

ReplaceAllString(re, s, t, repl) == replaceFrom(re, s, 1, t, repl, <<>>)

\* strings.TrimSpace
RECURSIVE TrimLeft(_)
TrimLeft(s) ==
    IF s # <<>> /\ Head(s) \in {"sp", "nl"} THEN TrimLeft(Tail(s)) ELSE s

RECURSIVE TrimRight(_)
TrimRight(s) ==
    IF s # <<>> /\ s[Len(s)] \in {"sp", "nl"}
    THEN TrimRight(SubSeq(s, 1, Len(s) - 1)) ELSE s

TrimSpace(s) == TrimRight(TrimLeft(s))

\* the expressions of cleanMarkdown that replace by the empty string, in order
CleanupPasses ==
    <<"reBreadcrumb", "reDateLine", "reH1", "reShareFooter", "reRelated",
      "reWantMore", "reCGCta", "reReadyStart", "reNextImage">>

RECURSIVE applyPasses(_, _, _)
applyPasses(passes, s, t) ==
    IF passes = <<>> THEN s
    ELSE applyPasses(Tail(passes), ReplaceAllString(Head(passes), s, t, <<>>), t)

cleanMarkdown(rawText, t) ==
    TrimSpace(ReplaceAllString("reExcessBlanks",
                               applyPasses(CleanupPasses, rawText, t), t,
                               <<"nl", "nl">>))

\* cleanMarkdown is about to be applied to a text
InitClean ==
    /\ InitRun
    /\ listing = <<>>
    /\ PoolIdle
    /\ DiscIdle
    /\ IoIdle
    /\ GenIdle
    /\ DateIdle
    /\ HttpIdle
    /\ mdTitle \in Titles
    /\ mdText \in Texts(MaxText)
    /\ mdApplied = 0
    /\ mdFirst = <<>>

\* s = cleanMarkdown(raw, title)
CleanOnce ==
    /\ mdApplied = 0
    /\ mdText' = cleanMarkdown(mdText, mdTitle)
    /\ mdFirst' = mdText'
    /\ mdApplied' = 1
    /\ UNCHANGED mdTitle

\* cleanMarkdown applied to its own result
CleanAgain ==
    /\ mdApplied = 1
    /\ mdText' = cleanMarkdown(mdText, mdTitle)
    /\ mdApplied' = 2
    /\ UNCHANGED <<mdTitle, mdFirst>>

NextClean ==
    \/ CleanOnce
          /\ UNCHANGED <<runVars, poolVars, discVars, ioVars, genVars,
                         dateVars, httpVars>>
    \/ CleanAgain
          /\ UNCHANGED <<runVars, poolVars, discVars, ioVars, genVars,
                         dateVars, httpVars>>

SpecClean == InitClean /\ [][NextClean]_vars

\* ============================================ Client.Generate in detail
\* Generate(ctx, system, user, maxTokens) has been called: attempt := 0
InitGen ==
    /\ InitRun
    /\ listing = <<>>
    /\ PoolIdle
    /\ DiscIdle
    /\ IoIdle
    /\ CleanIdle
    /\ DateIdle
    /\ HttpIdle
    /\ gpos = "loop"
    /\ attempt = 0
    /\ lastErr = "nil"
    /\ ctxDone \in BOOLEAN
    /\ elapsed = 0
    /\ timer = 0
    /\ genRes = NoResult
    /\ genCalls = <<>>
    /\ cancelledAt = IF ctxDone THEN "before" ELSE "never"

\* (mutant) the retry does not wait
afterBackoff_none(t) == t

\* time.After(5 * time.Second) at time t: when its channel delivers
afterBackoff(t) == t + Backoff

\* the loop condition "attempt < 2"
moreAttempts(n) == n < 2

\* time passes; a goroutine parked in the select is woken when its timer is due
Tick ==
    /\ gpos \in {"loop", "call", "parked"}
    /\ elapsed < MaxTime
    /\ ~(gpos = "parked" /\ elapsed >= timer)
    /\ elapsed' = elapsed + 1
    /\ UNCHANGED <<gpos, attempt, lastErr, ctxDone, timer, genRes, genCalls,
                   cancelledAt>>

\* the caller's context is cancelled; a goroutine parked in the select is
\* woken by ctx.Done(); when the timer is due as well, select takes either case
Cancel ==
    /\ gpos \in {"loop", "call", "parked"}
    /\ ~ctxDone
    /\ ctxDone' = TRUE
    /\ cancelledAt' = IF gpos # "parked" THEN "attempt"
                      ELSE IF elapsed < timer THEN "backoff" ELSE "expiry"
    /\ gpos' \in IF gpos # "parked" THEN {gpos}
                 ELSE IF elapsed < timer THEN {"ctxcase"}
                 ELSE {"ctxcase", "parked"}
    /\ UNCHANGED <<attempt, lastErr, elapsed, timer, genRes, genCalls>>

\* the loop is over: return "", lastErr
LoopEnds ==
    /\ gpos = "loop"
    /\ ~moreAttempts(attempt)
    /\ genRes' = [text |-> "", err |-> lastErr]
    /\ gpos' = "returned"
    /\ UNCHANGED <<attempt, lastErr, ctxDone, elapsed, timer, genCalls,
                   cancelledAt>>

\* attempt 0: no select; doGenerate is called
FirstAttempt ==
    /\ gpos = "loop"
    /\ moreAttempts(attempt)
    /\ attempt = 0
    /\ genCalls' = Append(genCalls, elapsed)
    /\ gpos' = "call"
    /\ UNCHANGED <<attempt, lastErr, ctxDone, elapsed, timer, genRes,
                   cancelledAt>>

\* attempt > 0: the select is entered with time.After(5 * time.Second); when
\* ctx is done it takes that case, otherwise the goroutine is parked
EnterSelect ==
    /\ gpos = "loop"
    /\ moreAttempts(attempt)
    /\ attempt > 0
    /\ timer' = afterBackoff(elapsed)
    /\ gpos' = IF ctxDone THEN "ctxcase" ELSE "parked"
    /\ UNCHANGED <<attempt, lastErr, ctxDone, elapsed, genRes, genCalls,
                   cancelledAt>>

\* case <-ctx.Done(): return "", ctx.Err()
ReturnCtxErr ==
    /\ gpos = "ctxcase"
    /\ genRes' = ctxErr
    /\ gpos' = "returned"
    /\ UNCHANGED <<attempt, lastErr, ctxDone, elapsed, timer, genCalls,
                   cancelledAt>>

\* case <-time.After(...): the timer is due; doGenerate is called
TimerFires ==
    /\ gpos = "parked"
    /\ elapsed >= timer
    /\ genCalls' = Append(genCalls, elapsed)
    /\ gpos' = "call"
    /\ UNCHANGED <<attempt, lastErr, ctxDone, elapsed, timer, genRes,
                   cancelledAt>>

\* doGenerate returns a text: return text, nil
CallSucceeds ==
    /\ gpos = "call"
    /\ genRes' = genText(attempt)
    /\ gpos' = "returned"
    /\ UNCHANGED <<attempt, lastErr, ctxDone, elapsed, timer, genCalls,
                   cancelledAt>>

\* doGenerate returns an error: lastErr = err; attempt++
CallFails ==
    /\ gpos = "call"
    /\ lastErr' = genError(attempt).err
    /\ attempt' = attempt + 1
    /\ gpos' = "loop"
    /\ UNCHANGED <<ctxDone, elapsed, timer, genRes, genCalls, cancelledAt>>

NextGen ==
    \/ Tick
          /\ UNCHANGED <<runVars, poolVars, discVars, ioVars, cleanVars,
                         dateVars, httpVars>>
    \/ Cancel
          /\ UNCHANGED <<runVars, poolVars, discVars, ioVars, cleanVars,
                         dateVars, httpVars>>
    \/ LoopEnds
          /\ UNCHANGED <<runVars, poolVars, discVars, ioVars, cleanVars,
                         dateVars, httpVars>>
    \/ FirstAttempt
          /\ UNCHANGED <<runVars, poolVars, discVars, ioVars, cleanVars,
                         dateVars, httpVars>>
    \/ EnterSelect
          /\ UNCHANGED <<runVars, poolVars, discVars, ioVars, cleanVars,
                         dateVars, httpVars>>
    \/ ReturnCtxErr
          /\ UNCHANGED <<runVars, poolVars, discVars, ioVars, cleanVars,
                         dateVars, httpVars>>
    \/ TimerFires
          /\ UNCHANGED <<runVars, poolVars, discVars, ioVars, cleanVars,
                         dateVars, httpVars>>
    \/ CallSucceeds
          /\ UNCHANGED <<runVars, poolVars, discVars, ioVars, cleanVars,
                         dateVars, httpVars>>
    \/ CallFails
          /\ UNCHANGED <<runVars, poolVars, discVars, ioVars, cleanVars,
                         dateVars, httpVars>>

SpecGen == InitGen /\ [][NextGen]_vars

\* ================================== downloadAndConvertPost in detail
\* Texts are lists of tokens: "sp" is a space, a number is the token of its
\* digits, every other token is a run of other characters.

\* the month names of reDateText and of the layout "January"
Months ==
    <<"January", "February", "March", "April", "May", "June", "July",
      "August", "September", "October", "November", "December">>

\* tokens of four, two and one digits, and their values
Digits4 == {"2023", "2024"}
Digits2 == {"01", "02", "05", "12", "13", "29", "45"}
Digits1 == {"5"}
atoi(tok) ==
    CASE tok = "2023" -> 2023
      [] tok = "2024" -> 2024
      [] tok = "01" -> 1
      [] tok = "02" -> 2
      [] tok \in {"05", "5"} -> 5
      [] tok = "12" -> 12
      [] tok = "13" -> 13
      [] tok = "29" -> 29
      [] tok = "45" -> 45

\* the digits of a day of the month, without padding (layout "2")
itoa(n) ==
    <<"1", "2", "3", "4", "5", "6", "7", "8", "9", "10",
      "11", "12", "13", "14", "15", "16", "17", "18", "19", "20",
      "21", "22", "23", "24", "25", "26", "27", "28", "29", "30",
      "31">>[n]

isLeap(y) == y % 4 = 0 /\ (y % 100 # 0 \/ y % 400 = 0)

daysIn(m, y) ==
    IF m = 2 THEN (IF isLeap(y) THEN 29 ELSE 28)
    ELSE IF m \in {4, 6, 9, 11} THEN 30 ELSE 31

NoTime == [ok |-> FALSE, y |-> "", m |-> 0, d |-> 0]

\* time.Parse("2006-01-02", dt): four digits, "-", two digits, "-", two
\* digits and nothing else; the month and the day must be in range
timeParse(dt) ==
    IF /\ Len(dt) = 5
       /\ dt[1] \in Digits4
       /\ dt[2] = "-"
       /\ dt[3] \in Digits2
       /\ dt[4] = "-"
       /\ dt[5] \in Digits2
       /\ atoi(dt[3]) \in 1..12
       /\ atoi(dt[5]) \in 1..daysIn(atoi(dt[3]), atoi(dt[1]))
    THEN [ok |-> TRUE, y |-> dt[1], m |-> atoi(dt[3]), d |-> atoi(dt[5])]
    ELSE NoTime

\* parsed.Format("January 2, 2006")
timeFormat(t) == <<Months[t.m], "sp", itoa(t.d), ",", "sp", t.y>>

\* reDateText.MatchString(text)
matchesDateText(text) ==
    /\ Len(text) = 6
    /\ text[1] \in Range(Months)
    /\ text[2] = "sp"
    /\ text[3] \in Digits1 \cup Digits2
    /\ text[4] = ","
    /\ text[5] = "sp"
    /\ text[6] \in Digits4

\* for _, sel := range articleSelectors: regions holds, for the selectors
\* that match, in order, whether len(h) > 100; the index of the selection
\* whose html becomes contentHTML, 0 when the loop ends without a break
RECURSIVE firstLong(_, _)
firstLong(regions, k) ==
    IF k > Len(regions) THEN 0
    ELSE IF regions[k] THEN k
    ELSE firstLong(regions, k + 1)
contentRegion(regions) == firstLong(regions, 1)

\* an element at "at" is detached by a Find("nav, header, footer, script,
\* style").Remove(): at.chrome says it is inside such an element, at.region
\* is the least index of the matched selections that such an element is a
\* descendant of (0: of none, only of body). The loop calls Remove on every
\* matched selection up to the accepted one; when none is accepted, on all
\* of them and then on body
removed(at, regions) ==
    /\ at.chrome
    /\ \/ contentRegion(regions) = 0
       \/ at.region \in 1..contentRegion(regions)

\* the elements of a selection that are still in doc
RECURSIVE remaining(_, _)
remaining(elems, regions) ==
    IF elems = <<>> THEN <<>>
    ELSE IF removed(Head(elems).at, regions)
         THEN remaining(Tail(elems), regions)
         ELSE <<Head(elems)>> \o remaining(Tail(elems), regions)

\* doc after the content selection
removeChrome(d) ==
    [d EXCEPT !.times = remaining(@, d.regions),
              !.paras = remaining(@, d.regions)]

\* doc.Find("time").First(): the first time element of doc, or the empty
\* selection
firstTime(times) ==
    IF times = <<>>
    THEN [exists |-> FALSE, hasAttr |-> FALSE, datetime |-> <<>>, text |-> <<>>]
    ELSE [exists |-> TRUE, hasAttr |-> Head(times).hasAttr,
          datetime |-> Head(times).datetime, text |-> Head(times).text]

\* the date taken from the first time element t of the page, "" when there
\* is no time element
timeDate(t) ==
    IF ~t.exists THEN <<>>
    ELSE IF t.hasAttr /\ t.datetime # <<>>
         THEN (IF timeParse(t.datetime).ok
               THEN timeFormat(timeParse(t.datetime))
               ELSE t.datetime)
         ELSE TrimSpace(t.text)

\* the EachWithBreak over "p, div, span": the first text that, trimmed, is a
\* long-form date; "" when there is none
RECURSIVE scanDate(_)
scanDate(paras) ==
    IF paras = <<>> THEN <<>>
    ELSE IF matchesDateText(TrimSpace(Head(paras).text))
         THEN TrimSpace(Head(paras).text)
         ELSE scanDate(Tail(paras))

\* (mutant) fetchPage returns an error for a response with an error status
fetchPage_checksStatus(r) ==
    IF r.transport # "ok" THEN r.transport
    ELSE IF r.status >= 400 THEN "status" ELSE "nil"

\* fetchPage: an error from http.NewRequest, httpClient.Do or io.ReadAll;
\* the status of the response is not looked at
fetchPage(r) == IF r.transport = "ok" THEN "nil" ELSE r.transport

\* the pages and the responses followed
LongDate == <<"January", "sp", "5", ",", "sp", "2024">>
ShortDate == <<"sp", "Jan", "sp", "5", "sp">>
\* where an element can be in a page whose selectors match n selections
Places(n) ==
    {[chrome |-> FALSE, region |-> 0]}
    \cup {[chrome |-> TRUE, region |-> k] : k \in 0..n}
\* time elements: without datetime, with an empty one, with one that parses,
\* with a timestamp and with a day that does not exist
TimeKinds ==
    {[hasAttr |-> FALSE, datetime |-> <<>>, text |-> ShortDate],
     [hasAttr |-> FALSE, datetime |-> <<>>, text |-> <<>>],
     [hasAttr |-> TRUE, datetime |-> <<>>, text |-> LongDate],
     [hasAttr |-> TRUE, datetime |-> <<"2024", "-", "01", "-", "05">>,
      text |-> ShortDate],
     [hasAttr |-> TRUE,
      datetime |-> <<"2024", "-", "01", "-", "05", "T10:00:00Z">>,
      text |-> ShortDate],
     [hasAttr |-> TRUE, datetime |-> <<"2023", "-", "02", "-", "29">>,
      text |-> <<>>]}
TimeElements(n) ==
    {[hasAttr |-> t.hasAttr, datetime |-> t.datetime, text |-> t.text,
      at |-> a] : t \in TimeKinds, a \in Places(n)}
ParaTexts ==
    {<<"Posted", "sp", "January", "sp", "5", ",", "sp", "2024">>,
     <<"sp", "March", "sp", "12", ",", "sp", "2023", "sp">>,
     <<"May", "sp", "45", ",", "sp", "2024">>}
Paragraphs(n) == {[text |-> x, at |-> a] : x \in ParaTexts, a \in Places(n)}
\* the pages with up to nr matched selectors, nt time elements, np paragraphs
Pages(nr, nt, np) ==
    UNION {[regions : {r},
            times : SeqsUpTo(TimeElements(Len(r)), nt),
            paras : SeqsUpTo(Paragraphs(Len(r)), np)] :
             r \in SeqsUpTo(BOOLEAN, nr)}
Transports == {"ok", "request", "connect", "timeout", "read"}
Statuses == {200, 404, 500}
\* a request fails in transport, or gets a response with a status
Responses ==
    {[transport |-> x, status |-> 0] : x \in Transports \ {"ok"}}
    \cup {[transport |-> "ok", status |-> n] : n \in Statuses}

\* downloadAndConvertPost(post) has been called
InitExtract ==
    /\ InitRun
    /\ listing = <<>>
    /\ PoolIdle
    /\ DiscIdle
    /\ IoIdle
    /\ CleanIdle
    /\ GenIdle
    /\ HttpIdle
    /\ xpos = "fetch"
    /\ xresp \in Responses
    /\ xdoc \in IF xresp.transport = "ok"
                THEN Pages(MaxRegions, MaxTimes, MaxParas) ELSE {NoPage}
    /\ xdate = <<>>
    /\ xres = NoExtract

\* html, err := fetchPage(post.URL); an error is returned as the result
FetchPage ==
    /\ xpos = "fetch"
    /\ IF fetchPage(xresp) = "nil"
       THEN xpos' = "content" /\ xres' = xres
       ELSE xpos' = "done" /\ xres' = [err |-> fetchPage(xresp), date |-> <<>>]
    /\ UNCHANGED <<xresp, xdoc, xdate>>

\* the loop over articleSelectors and the body fallback: the Remove calls
\* change doc
SelectContent ==
    /\ xpos = "content"
    /\ xdoc' = removeChrome(xdoc)
    /\ xpos' = "time"
    /\ UNCHANGED <<xresp, xdate, xres>>

\* if t := doc.Find("time").First(); t.Length() > 0 { ... }
TimeElement ==
    /\ xpos = "time"
    /\ xdate' = timeDate(firstTime(xdoc.times))
    /\ xpos' = IF xdate' = <<>> THEN "scan" ELSE "convert"
    /\ UNCHANGED <<xresp, xdoc, xres>>

\* if date == "" { doc.Find("p, div, span").EachWithBreak(...) }
ScanParagraphs ==
    /\ xpos = "scan"
    /\ xdate' = scanDate(xdoc.paras)
    /\ xpos' = "convert"
    /\ UNCHANGED <<xresp, xdoc, xres>>

\* mdConverter.ConvertString returns, with or without error
Convert ==
    /\ xpos = "convert"
    /\ \E ok \in BOOLEAN :
           xres' = IF ok THEN [err |-> "nil", date |-> xdate]
                   ELSE [err |-> "convert", date |-> <<>>]
    /\ xpos' = "done"
    /\ UNCHANGED <<xresp, xdoc, xdate>>

NextExtract ==
    \/ FetchPage
          /\ UNCHANGED <<runVars, poolVars, discVars, ioVars, cleanVars,
                         genVars, httpVars>>
    \/ SelectContent
          /\ UNCHANGED <<runVars, poolVars, discVars, ioVars, cleanVars,
                         genVars, httpVars>>
    \/ TimeElement
          /\ UNCHANGED <<runVars, poolVars, discVars, ioVars, cleanVars,
                         genVars, httpVars>>
    \/ ScanParagraphs
          /\ UNCHANGED <<runVars, poolVars, discVars, ioVars, cleanVars,
                         genVars, httpVars>>
    \/ Convert
          /\ UNCHANGED <<runVars, poolVars, discVars, ioVars, cleanVars,
                         genVars, httpVars>>

SpecExtract == InitExtract /\ [][NextExtract]_vars

\* ===================================== runs, with the site's responses
\* the response has an error status
isErrorStatus(r) == r.transport = "ok" /\ r.status >= 400

\* scraped := scrapeAll(toScrape), by what the site answers to each request
\* and by the outcome of each conversion of a body that was received: an
\* extraction returns no error when fetchPage returned none and the
\* conversion succeeded
ScrapeHttp ==
    /\ pc = "scrape"
    /\ \E rs \in [Range(toScrape) -> Responses] :
       \E conv \in SUBSET {s \in Range(toScrape) : rs[s].transport = "ok"} :
          LET okSet == {s \in Range(toScrape) :
                           fetchPage(rs[s]) = "nil" /\ s \in conv}
              errs == {s \in conv : isErrorStatus(rs[s])}
          IN  /\ scraped' = scrapeAll(toScrape, okSet)
              /\ okHist' = okHist \cup {<<s, clock>> : s \in okSet}
              /\ httpHist' =
                     {[slug |-> s, run |-> clock, status |-> rs[s].status] :
                          s \in errs}
    /\ fetched' = Range(toScrape)
    /\ pc' = "update"
    /\ UNCHANGED <<listing, cpFile, archive, clock, force, cp, allPosts,
                   toScrape, rebuild, wi, loaded, cpStart, oldSecs, prev>>

NextHttp ==
    \/ StartRunIO
          /\ UNCHANGED <<poolVars, discVars, ioVars, cleanVars, genVars,
                         dateVars, httpVars>>
    \/ LoadCheckpoint
          /\ UNCHANGED <<poolVars, discVars, ioVars, cleanVars, genVars,
                         dateVars, httpVars>>
    \/ Discover
          /\ UNCHANGED <<poolVars, discVars, ioVars, cleanVars, genVars,
                         dateVars, httpVars>>
    \/ DiscoverFatal
          /\ UNCHANGED <<poolVars, discVars, ioVars, cleanVars, genVars,
                         dateVars, httpVars>>
    \/ Plan
          /\ UNCHANGED <<poolVars, discVars, ioVars, cleanVars, genVars,
                         dateVars, httpVars>>
    \/ ScrapeHttp
          /\ UNCHANGED <<poolVars, discVars, ioVars, cleanVars, genVars,
                         dateVars>>
    \/ UpdateCheckpoint
          /\ UNCHANGED <<poolVars, discVars, ioVars, cleanVars, genVars,
                         dateVars, httpVars>>
    \/ SaveTruncate
          /\ UNCHANGED <<poolVars, discVars, ioVars, cleanVars, genVars,
                         dateVars, httpVars>>
    \/ SaveWrite
          /\ UNCHANGED <<poolVars, discVars, ioVars, cleanVars, genVars,
                         dateVars, httpVars>>
    \/ OpenArchive
          /\ UNCHANGED <<poolVars, discVars, ioVars, cleanVars, genVars,
                         dateVars, httpVars>>
    \/ WriteSection
          /\ UNCHANGED <<poolVars, discVars, ioVars, cleanVars, genVars,
                         dateVars, httpVars>>
    \/ EndSections
          /\ UNCHANGED <<poolVars, discVars, ioVars, cleanVars, genVars,
                         dateVars, httpVars>>
    \/ Exit
          /\ UNCHANGED <<poolVars, discVars, ioVars, cleanVars, genVars,
                         dateVars, httpVars>>

\* runs that are never interrupted, with the responses of the site; the
\* site's listing stays as it is, and there is one run less than in Spec
SpecHttp == Init /\ [][NextHttp]_vars

\* ===================================================== scrapeAll in detail
\* its inputs: lists of at most MaxPosts posts with distinct slugs
PoolInputs == UNION {Perms(S) : S \in SUBSET (1..MaxPosts)}

\* scrapeAll(posts) has been called: out, ch, sem, wg and completed are made
InitPool ==
    /\ InitRun
    /\ DiscIdle
    /\ IoIdle
    /\ CleanIdle
    /\ GenIdle
    /\ DateIdle
    /\ HttpIdle
    /\ listing = <<>>
    /\ posts \in PoolInputs
    /\ di = 1
    /\ w = [i \in 1..Len(posts) |-> "new"]
    /\ res = [i \in 1..Len(posts) |-> downloadAndConvertPost(posts[i], FALSE)]
    /\ sem = 0
    /\ wg = 0
    /\ completed = 0
    /\ ch = <<>>
    /\ closed = FALSE
    /\ out = EmptyLedger
    /\ returned = FALSE
    /\ calls = [i \in 1..Len(posts) |-> 0]

\* (mutant) the dispatcher does not wait for a slot
semHasRoom_always == TRUE

\* "sem <- struct{}{}" can proceed: the channel sem has a free slot
semHasRoom == sem < workers

\* (mutant) ch is made with capacity 1
chHasRoom_one == Len(ch) < 1

\* "ch <- r" can proceed: ch was made with capacity len(posts)
chHasRoom == Len(ch) < Len(posts)

\* the extractions in progress: goroutines inside downloadAndConvertPost
InProgress == {i \in 1..Len(posts) : w[i] = "extract"}

\* (mutant) the results are received while the posts are dispatched
Dispatched_atOnce == TRUE

\* the dispatching loop is over
Dispatched == di > Len(posts)

\* (mutant) a goroutine calls downloadAndConvertPost again after an error
afterExtract_retry(r) == IF r.err THEN "extract" ELSE "send"

\* where a goroutine goes when downloadAndConvertPost has returned r: to
\* "ch <- r", whether r.err is nil or not
afterExtract(r) == "send"

\* an iteration of "for _, post := range posts" begins: wg.Add(1)
WgAdd ==
    /\ di >= 1
    /\ di <= Len(posts)
    /\ w[di] = "new"
    /\ wg' = wg + 1
    /\ w' = [w EXCEPT ![di] = "added"]
    /\ UNCHANGED <<posts, di, res, sem, completed, ch, closed, out, returned,
                   calls>>

\* the iteration goes on: "sem <- struct{}{}" once sem has a free slot, then
\* the go statement
Dispatch ==
    /\ di >= 1
    /\ di <= Len(posts)
    /\ w[di] = "added"
    /\ semHasRoom
    /\ sem' = sem + 1
    /\ w' = [w EXCEPT ![di] = "extract"]
    /\ di' = di + 1
    /\ UNCHANGED <<posts, res, wg, completed, ch, closed, out, returned,
                   calls>>

\* r := downloadAndConvertPost(p) returns, with or without error;
\* completed.Add(1) and the progress line
Extract(i) ==
    /\ w[i] = "extract"
    /\ \E ok \in BOOLEAN : res' = [res EXCEPT ![i] = downloadAndConvertPost(posts[i], ok)]
    /\ completed' = completed + 1
    /\ calls' = [calls EXCEPT ![i] = @ + 1]
    /\ w' = [w EXCEPT ![i] = afterExtract(res'[i])]
    /\ UNCHANGED <<posts, di, sem, wg, ch, closed, out, returned>>

\* ch <- r
Send(i) ==
    /\ w[i] = "send"
    /\ chHasRoom
    /\ ch' = Append(ch, res[i])
    /\ w' = [w EXCEPT ![i] = "release"]
    /\ UNCHANGED <<posts, di, res, sem, wg, completed, closed, out, returned,
                   calls>>

\* the deferred "<-sem"
Release(i) ==
    /\ w[i] = "release"
    /\ sem' = sem - 1
    /\ w' = [w EXCEPT ![i] = "wgdone"]
    /\ UNCHANGED <<posts, di, res, wg, completed, ch, closed, out, returned,
                   calls>>

\* the deferred wg.Done(); the goroutine ends
WgDone(i) ==
    /\ w[i] = "wgdone"
    /\ wg' = wg - 1
    /\ w' = [w EXCEPT ![i] = "end"]
    /\ UNCHANGED <<posts, di, res, sem, completed, ch, closed, out, returned,
                   calls>>

\* the closing goroutine, started after the loop: wg.Wait(); close(ch)
CloseCh ==
    /\ Dispatched
    /\ wg = 0
    /\ ~closed
    /\ closed' = TRUE
    /\ UNCHANGED <<posts, di, w, res, sem, wg, completed, ch, out, returned,
                   calls>>

\* one iteration of "for r := range ch"
Receive ==
    /\ Dispatched
    /\ ~returned
    /\ Len(ch) > 0
    /\ out' = Collect(out, Head(ch))
    /\ ch' = Tail(ch)
    /\ UNCHANGED <<posts, di, w, res, sem, wg, completed, closed, returned,
                   calls>>

\* ch is closed and drained: the range loop ends, return out
Return ==
    /\ Dispatched
    /\ ~returned
    /\ Len(ch) = 0
    /\ closed
    /\ returned' = TRUE
    /\ UNCHANGED <<posts, di, w, res, sem, wg, completed, ch, closed, out,
                   calls>>

NextPool ==
    \/ WgAdd
          /\ UNCHANGED <<runVars, discVars, ioVars, cleanVars, genVars,
                         dateVars, httpVars>>
    \/ Dispatch
          /\ UNCHANGED <<runVars, discVars, ioVars, cleanVars, genVars,
                         dateVars, httpVars>>
    \/ \E i \in 1..Len(posts) : Extract(i)
          /\ UNCHANGED <<runVars, discVars, ioVars, cleanVars, genVars,
                         dateVars, httpVars>>
    \/ \E i \in 1..Len(posts) : Send(i)
          /\ UNCHANGED <<runVars, discVars, ioVars, cleanVars, genVars,
                         dateVars, httpVars>>
    \/ \E i \in 1..Len(posts) : Release(i)
          /\ UNCHANGED <<runVars, discVars, ioVars, cleanVars, genVars,
                         dateVars, httpVars>>
    \/ \E i \in 1..Len(posts) : WgDone(i)
          /\ UNCHANGED <<runVars, discVars, ioVars, cleanVars, genVars,
                         dateVars, httpVars>>
    \/ CloseCh
          /\ UNCHANGED <<runVars, discVars, ioVars, cleanVars, genVars,
                         dateVars, httpVars>>
    \/ Receive
          /\ UNCHANGED <<runVars, discVars, ioVars, cleanVars, genVars,
                         dateVars, httpVars>>
    \/ Return
          /\ UNCHANGED <<runVars, discVars, ioVars, cleanVars, genVars,
                         dateVars, httpVars>>

\* ============================== a run against any checkpoint file
\* ledgers over the slugs, with time stamps from the set stamps
LedgersOf(stamps) == UNION {[S -> [ScrapedAt : stamps]] : S \in SUBSET Slugs}

\* what checkpoint.json can hold when a run starts, written by the program
\* or not; the time stamp 0 is the zero value of a field
CheckpointFiles ==
    {MissingFile, UnreadableFile, PartialFile}
        \cup {JsonFile(l) : l \in LedgersOf(1..MaxRuns)}
        \cup {MistypedFile(l) : l \in LedgersOf(0..MaxRuns)}

InitAnyFile ==
    /\ listing \in Listings
    /\ cpFile \in CheckpointFiles
    /\ archive = NoArchive
    /\ clock = 0
    /\ pc = "idle"
    /\ force = FALSE
    /\ cp = EmptyLedger
    /\ allPosts = <<>>
    /\ toScrape = <<>>
    /\ scraped = EmptyLedger
    /\ rebuild = FALSE
    /\ wi = 0
    /\ loaded = EmptyLedger
    /\ cpStart = MissingFile
    /\ oldSecs = <<>>
    /\ fetched = {}
    /\ okHist = {}
    /\ prev = NoPrev
    /\ PoolIdle
    /\ DiscIdle
    /\ IoIdle
    /\ CleanIdle
    /\ GenIdle
    /\ DateIdle
    /\ HttpIdle

\* main from its start to the computation of toScrape
NextLoad ==
    \/ StartRun
          /\ UNCHANGED <<poolVars, discVars, ioVars, cleanVars, genVars,
                         dateVars, httpVars>>
    \/ LoadCheckpoint
          /\ UNCHANGED <<poolVars, discVars, ioVars, cleanVars, genVars,
                         dateVars, httpVars>>
    \/ Discover
          /\ UNCHANGED <<poolVars, discVars, ioVars, cleanVars, genVars,
                         dateVars, httpVars>>
    \/ DiscoverFatal
          /\ UNCHANGED <<poolVars, discVars, ioVars, cleanVars, genVars,
                         dateVars, httpVars>>
    \/ Plan
          /\ UNCHANGED <<poolVars, discVars, ioVars, cleanVars, genVars,
                         dateVars, httpVars>>

SpecLoad == InitAnyFile /\ [][NextLoad]_vars

SpecPool == InitPool /\ [][NextPool]_vars

\* scrapeAll when every extraction returns and the Go scheduler runs a
\* goroutine that can take a step; the inputs are the lists of 0 to MaxPosts
\* posts (which slugs they hold makes no difference to the scheduling)
InitPoolFair == InitPool /\ posts \in {[i \in 1..n |-> i] : n \in 0..MaxPosts}

SpecPoolFair == InitPoolFair /\ [][NextPool]_vars /\ WF_vars(NextPool)

\* ============================================== getAllBlogLinks in detail
\* The href of an anchor of a listing page:
\*   "post"      /unchained/<id>
\*   "bare"      /unchained/
\*   "query"     /unchained/<id>?<query>
\*   "category"  /unchained/category/<id>
\*   "other"     an href that does not start with /unchained/
\* A slug is an integer: id > 0 stands for the text <id>, 0 for the empty
\* string, and -id for a text that contains "?".
Hrefs ==
    [kind : {"post", "query"}, id : Slugs]
        \cup [kind : {"bare", "category", "other"}, id : {0}]

\* the listing pages the site can serve
Docs == [links : SeqsUpTo(Hrefs, MaxLinks), next : {"none", "disabled", "enabled"}]

\* the selector a[href^="/unchained/"]
selected(h) == h.kind # "other"

\* href == "/unchained" || strings.Contains(href, "/category/")
isCategory(h) == h.kind = "category"

\* strings.TrimPrefix(href, "/unchained/")
TrimPrefix(h) ==
    CASE h.kind = "bare" -> 0
      [] h.kind = "query" -> 0 - h.id
      [] OTHER -> h.id

\* (mutant) the callback does not look the slug up in seen
skipLink_noSeen(slug, seenSet) == slug = 0 \/ slug < 0

\* slug == "" || strings.Contains(slug, "?") || seen[slug]
skipLink(slug, seenSet) == slug = 0 \/ slug < 0 \/ slug \in seenSet

\* the callback of Each on one anchor; st = [posts, seen]
eachLink(st, h) ==
    IF ~selected(h) \/ isCategory(h) THEN st
    ELSE LET slug == TrimPrefix(h)
         IN  IF skipLink(slug, st.seen) THEN st
             ELSE [posts |-> Append(st.posts, slug), seen |-> st.seen \cup {slug}]

\* doc.Find(...).Each(...): the callback on every anchor in document order
RECURSIVE eachLinks(_, _)
eachLinks(st, links) ==
    IF links = <<>> THEN st
    ELSE eachLinks(eachLink(st, Head(links)), Tail(links))

\* (mutant) a disabled button counts as a next page
hasNextPage_anyButton(d) == d.next # "none"

\* the button "Go to next page" is there and has no attribute disabled
hasNextPage(d) == d.next = "enabled"

\* main has loaded the checkpoint and calls getAllBlogLinks
InitDiscover ==
    /\ listing = <<>>
    /\ cpFile = MissingFile
    /\ archive = NoArchive
    /\ clock = 1
    /\ pc = "discover"
    /\ force = FALSE
    /\ cp = EmptyLedger
    /\ allPosts = <<>>
    /\ toScrape = <<>>
    /\ scraped = EmptyLedger
    /\ rebuild = FALSE
    /\ wi = 0
    /\ loaded = EmptyLedger
    /\ cpStart = MissingFile
    /\ oldSecs = <<>>
    /\ fetched = {}
    /\ okHist = {}
    /\ prev = NoPrev
    /\ PoolIdle
    /\ IoIdle
    /\ CleanIdle
    /\ GenIdle
    /\ DateIdle
    /\ HttpIdle
    /\ page = 1
    /\ gpc = "fetch"
    /\ doc = NoDoc
    /\ foundPosts = <<>>
    /\ seen = {}
    /\ listErr = 0
    /\ before = <<>>
    /\ nexts = <<>>

\* fetchPage(url) and goquery.NewDocumentFromReader succeed: the page is doc
FetchOk ==
    /\ gpc = "fetch"
    /\ page <= MaxPages
    /\ \E d \in Docs : doc' = d
    /\ before' = foundPosts
    /\ gpc' = "links"
    /\ UNCHANGED <<page, foundPosts, seen, listErr, nexts>>

\* fetchPage or the parser returns an error: return posts, err
FetchFails ==
    /\ gpc = "fetch"
    /\ page <= MaxPages
    /\ listErr' = page
    /\ gpc' = "returned"
    /\ UNCHANGED <<page, doc, foundPosts, seen, before, nexts>>

\* doc.Find(`a[href^="/unchained/"]`).Each(...)
EachLink ==
    /\ gpc = "links"
    /\ LET st == eachLinks([posts |-> foundPosts, seen |-> seen], doc.links)
       IN  /\ foundPosts' = st.posts
           /\ seen' = st.seen
    /\ gpc' = "button"
    /\ UNCHANGED <<page, doc, listErr, before, nexts>>

\* the button is there and not disabled: page++; doc goes out of scope
NextPage ==
    /\ gpc = "button"
    /\ hasNextPage(doc)
    /\ nexts' = Append(nexts, doc.next)
    /\ page' = page + 1
    /\ doc' = NoDoc
    /\ before' = foundPosts
    /\ gpc' = "fetch"
    /\ UNCHANGED <<foundPosts, seen, listErr>>

\* no button, or a disabled one: break, return posts, nil
LastPage ==
    /\ gpc = "button"
    /\ ~hasNextPage(doc)
    /\ nexts' = Append(nexts, doc.next)
    /\ gpc' = "returned"
    /\ UNCHANGED <<page, doc, foundPosts, seen, listErr, before>>

\* main: allPosts, err := getAllBlogLinks(); err != nil: log.Fatalf
MainListingError ==
    /\ gpc = "returned"
    /\ listErr # 0
    /\ gpc' = "fatal"
    /\ prev' = Summary("fatal")
    /\ ProcessGone
    /\ UNCHANGED <<listing, cpFile, archive, clock>>
    /\ UNCHANGED <<page, doc, foundPosts, seen, listErr, before, nexts>>

\* main: len(allPosts) == 0: log.Fatal
MainNoPosts ==
    /\ gpc = "returned"
    /\ listErr = 0
    /\ Len(foundPosts) = 0
    /\ gpc' = "fatal"
    /\ prev' = Summary("fatal")
    /\ ProcessGone
    /\ UNCHANGED <<listing, cpFile, archive, clock>>
    /\ UNCHANGED <<page, doc, foundPosts, seen, listErr, before, nexts>>

\* main goes on with allPosts
MainProceeds ==
    /\ gpc = "returned"
    /\ listErr = 0
    /\ Len(foundPosts) > 0
    /\ gpc' = "used"
    /\ allPosts' = foundPosts
    /\ pc' = "plan"
    /\ UNCHANGED <<listing, cpFile, archive, clock, force, cp, toScrape,
                   scraped, rebuild, wi, loaded, cpStart, oldSecs, fetched,
                   okHist, prev>>
    /\ UNCHANGED <<page, doc, foundPosts, seen, listErr, before, nexts>>

NextDiscover ==
    \/ FetchOk
          /\ UNCHANGED <<runVars, poolVars, ioVars, cleanVars, genVars,
                         dateVars, httpVars>>
    \/ FetchFails
          /\ UNCHANGED <<runVars, poolVars, ioVars, cleanVars, genVars,
                         dateVars, httpVars>>
    \/ EachLink
          /\ UNCHANGED <<runVars, poolVars, ioVars, cleanVars, genVars,
                         dateVars, httpVars>>
    \/ NextPage
          /\ UNCHANGED <<runVars, poolVars, ioVars, cleanVars, genVars,
                         dateVars, httpVars>>
    \/ LastPage
          /\ UNCHANGED <<runVars, poolVars, ioVars, cleanVars, genVars,
                         dateVars, httpVars>>
    \/ MainListingError
          /\ UNCHANGED <<poolVars, ioVars, cleanVars, genVars, dateVars,
                         httpVars>>
    \/ MainNoPosts
          /\ UNCHANGED <<poolVars, ioVars, cleanVars, genVars, dateVars,
                         httpVars>>
    \/ MainProceeds
          /\ UNCHANGED <<poolVars, ioVars, cleanVars, genVars, dateVars,
                         httpVars>>

SpecDiscover == InitDiscover /\ [][NextDiscover]_vars

\* ================================================================ claims
\* positions of a run
Planned == pc \in {"scrape", "update", "save", "write", "stat", "sections", "done"}
Saved == pc \in {"stat", "sections", "done"} /\ fetched # {}

\* index of x in a list of distinct elements
Pos(seq, x) == CHOOSE i \in 1..Len(seq) : seq[i] = x

\* the slugs whose entry in the file was stamped by the current run
StampedNow(file) == {s \in DOMAIN file.data : file.data[s].ScrapedAt = clock}

\* C1: in a run without -force, toScrape holds exactly the listed slugs that
\* are not in the loaded ledger, in listing order, and no slug of the loaded
\* ledger is fetched.
C1_IncrementalDiff ==
    (Planned /\ ~force) =>
        /\ Range(toScrape) = Range(allPosts) \ DOMAIN loaded
        /\ \A i, j \in 1..Len(toScrape) :
              i < j => Pos(allPosts, toScrape[i]) < Pos(allPosts, toScrape[j])
        /\ fetched \cap DOMAIN loaded = {}

\* an incremental run that skipped a known slug and fetched an unknown one
C1_Witness ==
    /\ pc = "update"
    /\ ~force
    /\ Range(allPosts) \cap DOMAIN loaded # {}
    /\ fetched # {}

\* the second of two incremental runs in succession, the site unchanged
SecondRunEnds ==
    /\ pc = "done"
    /\ ~force
    /\ prev.status = "ok"
    /\ ~prev.force
    /\ ~prev.changed

\* C2 as stated: the second of two incremental runs without site change
\* fetches nothing and leaves the ledger as the first run left it.
C2_IdempotentAsStated ==
    SecondRunEnds => (fetched = {} /\ cpFile = cpStart)

\* C2 amended: the same, when no extraction failed in the first run.
C2_IdempotentAfterCleanRun ==
    (SecondRunEnds /\ prev.failed = {}) => (fetched = {} /\ cpFile = cpStart)

\* a second run after a first run that filled the ledger without a failure
C2_Witness ==
    /\ SecondRunEnds
    /\ prev.failed = {}
    /\ LedgerSlugs(cpFile) # {}

\* C3: every entry of the persisted ledger names a slug whose extraction
\* returned no error in the run that stamped the entry.
C3_EntriesWereExtracted ==
    \A s \in LedgerSlugs(cpFile) : <<s, cpFile.data[s].ScrapedAt>> \in okHist

\* a run with a failed extraction has saved its ledger
C3_Witness ==
    /\ Saved
    /\ Failed # {}
    /\ LedgerSlugs(cpFile) # {}

\* C4: a slug whose extraction fails gets no entry from that run, which adds
\* exactly the other slugs it fetched; the next incremental run has every
\* such slug that is still listed in its toScrape.
C4_FailedIsRetried ==
    /\ Saved => StampedNow(cpFile) = fetched \ Failed
    /\ (Planned /\ ~force /\ prev.status = "ok") =>
           (prev.failed \cap Range(allPosts)) \subseteq Range(toScrape)

\* the incremental run after a run with a failure fetches the failed slug again
C4_Witness ==
    /\ pc = "update"
    /\ ~force
    /\ prev.status = "ok"
    /\ prev.failed \cap fetched # {}

\* C5: after a run that wrote the archive in rebuild mode, the slugs of the
\* persisted ledger are the slugs that have a section in the archive.
C5_RebuildConsistent ==
    (pc = "done" /\ fetched # {} /\ rebuild) =>
        LedgerSlugs(cpFile) = ArchiveSlugs(archive)

\* toScrape is computed and the archive is still as the run found it
BeforeArchive ==
    pc \in {"scrape", "update", "save", "write", "stat"} \/ (pc = "done" /\ fetched = {})

\* C6: after an interruption no slug is recorded in the checkpoint file while
\* its section is missing from the archive, and the next incremental run
\* scrapes every listed slug that has no section.
C6_CrashSafe ==
    /\ (pc = "idle" /\ prev.status = "crash") =>
           LedgerSlugs(cpFile) \subseteq ArchiveSlugs(archive)
    /\ (BeforeArchive /\ ~force /\ prev.status = "crash") =>
           (Range(allPosts) \ ArchiveSlugs(archive)) \subseteq Range(toScrape)

\* C7: at every point of a run (where an interruption can stop it) the
\* checkpoint file holds the content it had before the run or the complete
\* ledger of the run.
C7_FileOldOrComplete ==
    (pc # "idle") => (cpFile = cpStart \/ cpFile = JsonFile(cp))

\* C8: a run with -force scrapes every discovered article, starts from an
\* empty ledger, and persists exactly the slugs it scraped successfully, all
\* stamped by this run.
C8_ForceDiscardsLedger ==
    force =>
        /\ Planned => toScrape = allPosts
        /\ pc = "scrape" => cp = EmptyLedger
        /\ pc \in {"update", "save", "write"} => fetched = Range(allPosts)
        /\ Saved => /\ fetched = Range(allPosts)
                    /\ LedgerSlugs(cpFile) = okNow
                    /\ StampedNow(cpFile) = LedgerSlugs(cpFile)

\* a forced run has saved a ledger without an entry that was loaded
C8_Witness ==
    /\ force
    /\ Saved
    /\ okNow # {}
    /\ DOMAIN loaded \ okNow # {}

\* the slugs whose goroutine got a result without error
Succeeded ==
    {posts[i] : i \in {k \in 1..Len(posts) : w[k] \notin {"new", "added", "extract"} /\ ~res[k].err}}

\* C9: scrapeAll returns a map whose keys are exactly the slugs whose
\* extraction succeeded, after every post was extracted, whatever the
\* outcomes and the interleaving.
C9_SuccessesOnly ==
    returned =>
        /\ \A i \in 1..Len(posts) : w[i] = "end"
        /\ DOMAIN out = Succeeded
        /\ out = scrapeAll(posts, Succeeded)

\* scrapeAll returned after a failed and a successful extraction
C9_Witness ==
    /\ returned
    /\ \E i, j \in 1..Len(posts) : res[i].err /\ ~res[j].err

\* C10: at most `workers` extractions are in progress at any moment.
C10_AtMostWorkers == Cardinality(InProgress) <= workers

\* the pool is full while a post waits to be dispatched
C10_Witness ==
    /\ Cardinality(InProgress) = workers
    /\ di <= Len(posts)

\* C11: within one call of scrapeAll no input article is extracted twice
\* (a failed extraction is not repeated), and when scrapeAll returns every
\* input article has been extracted exactly once.
C11_ExtractedOnce ==
    /\ \A i \in 1..Len(posts) : calls[i] <= 1
    /\ completed = Cardinality({i \in 1..Len(posts) : calls[i] = 1})
    /\ returned => \A i \in 1..Len(posts) : calls[i] = 1

\* scrapeAll returned; an extraction failed and the input exceeded the pool
C11_Witness ==
    /\ returned
    /\ Len(posts) > workers
    /\ \E i \in 1..Len(posts) : res[i].err /\ calls[i] = 1

\* the run is writing the archive, or has written it
Writing == pc = "sections" \/ (pc = "done" /\ fetched # {})

\* the sections the current run has added to the archive
NewSecs == SubSeq(archive.secs, Len(oldSecs) + 1, Len(archive.secs))

\* secs holds slugs of ps only, in the order of ps
InOrderOf(secs, ps) ==
    \A i, j \in 1..Len(secs) :
        i < j => /\ secs[i] \in Range(ps)
                 /\ secs[j] \in Range(ps)
                 /\ Pos(ps, secs[i]) < Pos(ps, secs[j])

\* C12: the sections one run writes to the archive are in listing order (the
\* order of allPosts), whatever map scrapeAll returned.
C12_RunWritesInListingOrder ==
    Writing => InOrderOf(NewSecs, allPosts)

\* a run has written two sections
C12_Witness ==
    /\ pc = "done"
    /\ Len(NewSecs) >= 2

\* the sections of secs whose slug is in ps follow the order of ps
ListedInOrderOf(secs, ps) ==
    \A i, j \in 1..Len(secs) :
        (i < j /\ secs[i] \in Range(ps) /\ secs[j] \in Range(ps)) =>
            Pos(ps, secs[i]) <= Pos(ps, secs[j])

\* C13 as stated: after a completed run that follows a completed run, the
\* sections of the whole archive are in the order of the listing the run
\* discovered, in rebuild and in append mode.
C13_ArchiveInListingOrder ==
    (pc = "done" /\ fetched # {} /\ prev.status = "ok") =>
        ListedInOrderOf(archive.secs, allPosts)

\* C13 amended: the same, for a run that wrote the archive in rebuild mode.
C13_RebuiltInListingOrder ==
    (pc = "done" /\ fetched # {} /\ rebuild) => InOrderOf(archive.secs, allPosts)

\* a rebuild has written two sections over an archive that existed
C13_Witness ==
    /\ pc = "done"
    /\ rebuild
    /\ force
    /\ Len(archive.secs) >= 2
    /\ prev.status = "ok"

\* C14: a run in append mode keeps what the archive held as a prefix, and
\* when it ends it has added one section for each slug it scraped without
\* error, and no other section.
C14_AppendOnly ==
    (Writing /\ ~rebuild) =>
        /\ SubSeq(archive.secs, 1, Len(oldSecs)) = oldSecs
        /\ Range(NewSecs) \subseteq okNow
        /\ Len(NewSecs) = Cardinality(Range(NewSecs))
        /\ pc = "done" => Range(NewSecs) = okNow

\* an append run ended: it kept a section, added one, and one extraction failed
C14_Witness ==
    /\ pc = "done"
    /\ ~rebuild
    /\ oldSecs # <<>>
    /\ NewSecs # <<>>
    /\ Failed # {}

\* C15: no slug has two sections in the archive, after any sequence of runs.
C15_SlugUnique ==
    \A i, j \in 1..Len(archive.secs) :
        i # j => archive.secs[i] # archive.secs[j]

\* C16: when the fetch of a listing page after the first fails, the run is
\* not ended: main goes on with the articles gathered from the earlier pages.
C16_LaterPageErrorNotFatal ==
    (gpc \in {"fatal", "used"} /\ listErr >= 2) =>
        (gpc = "used" /\ pc = "plan" /\ allPosts = foundPosts)

\* C17: every slug gathered by one call of getAllBlogLinks is non-empty, and
\* no slug is gathered twice.
C17_SlugsNonEmptyUnique ==
    /\ \A i \in 1..Len(foundPosts) : foundPosts[i] # 0
    /\ \A i, j \in 1..Len(foundPosts) : i # j => foundPosts[i] # foundPosts[j]
    /\ gpc = "used" => allPosts = foundPosts

\* a listing was returned whose last page repeated an article link of an
\* earlier page and held a link without slug
C17_Witness ==
    /\ gpc = "used"
    /\ page >= 2
    /\ \E i, j \in 1..Len(doc.links) :
          /\ doc.links[i].kind = "post"
          /\ doc.links[i].id \in Range(before)
          /\ doc.links[j].kind = "bare"

\* the article links of a page: the slugs that are the text after /unchained/
ArticleSlugs(links) == {links[k].id : k \in {n \in 1..Len(links) : links[n].kind = "post"}}

\* index of the first anchor of links that points to the article s
FirstLink(links, s) ==
    CHOOSE k \in 1..Len(links) :
        /\ links[k] = [kind |-> "post", id |-> s]
        /\ \A n \in 1..(k - 1) : links[n] # links[k]

\* the article slugs of links that are not in old, each once, in the order
\* of their first anchor
FirstSeen(links, old) ==
    CHOOSE q \in Perms(ArticleSlugs(links) \ old) :
        \A i, j \in 1..Len(q) : i < j => FirstLink(links, q[i]) < FirstLink(links, q[j])

\* C18: page n+1 is fetched only if page n has a next-page control that is
\* not disabled; the pass ends at the first page whose control is missing or
\* disabled; what is gathered is, page after page, the article links not
\* seen before, each once, in first-seen order.
C18_PaginationAndOrder ==
    /\ page <= Len(nexts) + 1
    /\ \A n \in 1..Len(nexts) : n < page => nexts[n] = "enabled"
    /\ (gpc \in {"returned", "used"} /\ listErr = 0) =>
           (Len(nexts) = page /\ nexts[page] \in {"none", "disabled"})
    /\ gpc = "links" => foundPosts = before
    /\ (gpc \in {"button", "returned", "used"} /\ listErr = 0) =>
           foundPosts = before \o FirstSeen(doc.links, Range(before))
    /\ gpc = "used" => allPosts = foundPosts

\* a pass over two pages, the second with a disabled control, that gathered
\* articles from both
C18_Witness ==
    /\ gpc = "used"
    /\ nexts = <<"enabled", "disabled">>
    /\ before # <<>>
    /\ Len(foundPosts) > Len(before)

\* C19: a run that found the checkpoint file missing, unreadable or
\* unparseable (json.Unmarshal returned an error) has loaded a ledger
\* without any entry.
C19_BadFileGivesEmptyLedger ==
    (pc \in {"discover", "plan", "scrape", "done"} /\ cpStart.kind # "json") =>
        loaded = EmptyLedger

\* the file operations that failed in the current run, or in the last one
\* while no process runs
FailedNow == IF ioFail.run = clock THEN ioFail.kinds ELSE {}

\* C20 as stated: a run in which a write to the checkpoint file or to the
\* archive file failed does not end with a fatal error.
C20_WriteFailureNotFatal ==
    (pc = "idle" /\ FailedNow # {}) => prev.status = "ok"

\* where the runs of C20 end: after a failed write of the checkpoint file the
\* run goes on to the archive; a run with a failed write exits with status 0
\* unless the failure is that of os.Create or os.OpenFile on the archive,
\* and that one always ends the process with a fatal error.
C20_OnlyArchiveOpenIsFatal ==
    /\ "checkpoint" \in FailedNow => pc \in {"stat", "sections", "done", "idle"}
    /\ (pc = "idle" /\ FailedNow # {}) =>
           (prev.status = "ok" <=> "archive" \notin FailedNow)
    /\ (pc = "idle" /\ "archive" \in FailedNow) => prev.status = "fatal"
    /\ "archive" \in FailedNow => pc = "idle"

\* a run exited with status 0 although its checkpoint could not be written
C20_Witness ==
    /\ pc = "idle"
    /\ "checkpoint" \in FailedNow
    /\ prev.status = "ok"
    /\ archive.secs # <<>>
    /\ LedgerSlugs(cpFile) = {}

\* C21: a run that got a listing never ends with a fatal error, and when it
\* reaches the end of main it exits with status 0, whatever the number of
\* extractions that failed.
C21_FailuresKeepExitStatus ==
    [][ /\ (pc = "done" /\ pc' = "idle") => prev'.status = "ok"
        /\ (Planned /\ pc' = "idle") => prev'.status # "fatal" ]_vars

\* the first run listed two articles, every extraction failed, and the run
\* exited with status 0
C21_Witness ==
    /\ pc = "idle"
    /\ prev.status = "ok"
    /\ Cardinality(prev.failed) >= 2
    /\ archive = [exists |-> TRUE, secs |-> <<>>]
    /\ cpFile = JsonFile(EmptyLedger)

\* C22: applying cleanMarkdown to a text it has returned, with the same
\* title, returns that text.
C22_CleanupIdempotent ==
    mdApplied = 2 => mdText = mdFirst

\* Generate has returned
Returned == gpos = "returned"

\* C23: Generate calls the API at most twice; a successful return gives the
\* response of the call that succeeded, every call before it having failed;
\* a second call is made only after a failed first one and not before the
\* backoff of 5 seconds is over; when the first call failed and the context
\* was never cancelled the second call is made; when both calls failed the
\* error of the second is returned; when the context is cancelled during
\* the backoff the context's error is returned and no second call is made.
C23_GenerateRetriesOnce ==
    /\ Len(genCalls) <= 2
    /\ (Returned /\ genRes.err = "nil") =>
           genRes = genText(Len(genCalls) - 1)
    /\ Len(genCalls) = 2 =>
           /\ genCalls[2] >= genCalls[1] + Backoff
           /\ lastErr # "nil"
    /\ (Returned /\ genRes.err # "nil" /\ cancelledAt = "never") =>
           /\ Len(genCalls) = 2
           /\ genRes = genError(1)
    /\ (Returned /\ attempt = 2) => genRes = genError(1)
    /\ (Returned /\ cancelledAt = "backoff") =>
           /\ genRes = ctxErr
           /\ Len(genCalls) = 1

\* the first call failed and the second, made after the backoff, succeeded
C23_Witness ==
    /\ Returned
    /\ genRes = genText(1)
    /\ Len(genCalls) = 2
    /\ lastErr = "generate0"

\* C24: in a run without -force the ledger in memory is the loaded one until
\* the results are recorded, and the ledger the run persists holds every
\* loaded entry unchanged (listed or not) plus one entry, stamped by this
\* run, for each slug scraped without error in this run, and nothing else.
C24_LedgerOnlyGains ==
    /\ (~force /\ pc \in {"scrape", "update"}) => cp = loaded
    /\ (~force /\ Saved) =>
           /\ cpFile.kind = "json"
           /\ DOMAIN cpFile.data = DOMAIN loaded \cup okNow
           /\ \A s \in DOMAIN loaded : cpFile.data[s] = loaded[s]
           /\ \A s \in okNow : cpFile.data[s].ScrapedAt = clock
           /\ okNow \cap DOMAIN loaded = {}

\* an incremental run has persisted a new entry next to an older entry of a
\* slug that is not listed any more
C24_Witness ==
    /\ ~force
    /\ Saved
    /\ okNow # {}
    /\ \E s \in DOMAIN loaded :
           /\ s \notin Range(allPosts)
           /\ loaded[s].ScrapedAt < clock
           /\ cpFile.data[s] = loaded[s]

\* every goroutine of the pool has finished
AllWorkersDone == \A i \in 1..Len(posts) : w[i] = "end"

\* the step takes a result from the channel ch
Receives == Len(ch') < Len(ch)

\* C25 as stated: no result is taken from the channel ch before every worker
\* has finished.
C25_CollectAfterWorkers == [][Receives => AllWorkersDone]_vars

\* C25, amended: results are taken from ch only by the range loop of the
\* calling goroutine, which starts when every post has been dispatched and
\* may run while workers are still running; each step takes one result; and
\* scrapeAll returns only when every worker has finished, ch is closed and
\* every result has been taken.
C25_CollectWhileWorkersRun ==
    [][ /\ Receives =>
               /\ di > Len(posts)
               /\ ~returned
               /\ ch' = Tail(ch)
               /\ out' = Collect(out, Head(ch))
        /\ (returned' /\ ~returned) =>
               /\ AllWorkersDone
               /\ closed
               /\ Len(ch) = 0
               /\ completed = Len(posts) ]_vars

\* a result has been taken from ch while a worker is still running
C25_Witness ==
    /\ DOMAIN out # {}
    /\ \E i \in 1..Len(posts) : w[i] \in {"extract", "send"}
    /\ ~returned

\* downloadAndConvertPost has returned a result without error
Extracted == xpos = "done" /\ xres.err = "nil"

\* the three sources of the date, as far as each gives one
FromAttr(t) ==
    IF t.exists /\ t.hasAttr /\ timeParse(t.datetime).ok
    THEN timeFormat(timeParse(t.datetime)) ELSE <<>>
FromText(t) == IF t.exists THEN TrimSpace(t.text) ELSE <<>>

\* C26: the date of an extracted article is the datetime attribute of the
\* time element in long form when it parses; else the text of that element
\* (when the attribute is absent or does not parse); else the first p, div or
\* span text that is exactly a long-form date; else empty.
C26_DateResolution ==
    Extracted =>
        xres.date =
            IF FromAttr(firstTime(xdoc.times)) # <<>>
            THEN FromAttr(firstTime(xdoc.times))
            ELSE IF FromText(firstTime(xdoc.times)) # <<>>
            THEN FromText(firstTime(xdoc.times))
            ELSE scanDate(xdoc.paras)

\* the goroutines that hold a slot of sem
Holding == {i \in 1..Len(posts) : w[i] \in {"extract", "send", "release"}}

\* C27: with extractions that return, scrapeAll returns, for no post, fewer
\* posts than workers and more; the dispatcher waits for a slot only while a
\* running worker holds one; a worker at "ch <- r" finds room and ch open;
\* ch is closed once, after the last worker finished, and stays closed;
\* scrapeAll returns only when every worker has finished and ch is empty.
C27_ScrapeAllTerminates ==
    /\ <>returned
    /\ [](/\ (~Dispatched /\ ~semHasRoom) => Holding # {}
          /\ \A i \in 1..Len(posts) :
                 w[i] = "send" => (chHasRoom /\ ~closed)
          /\ closed => AllWorkersDone
          /\ returned => (AllWorkersDone /\ closed /\ Len(ch) = 0))
    /\ [][closed => closed']_vars

\* scrapeAll has returned from an input longer than the pool
C27_Witness ==
    /\ returned
    /\ Len(posts) > workers
    /\ closed
    /\ completed = Len(posts)

\* a run without -force whose listing holds no slug that the loaded ledger
\* lacks, from the diff on
UpToDate ==
    /\ ~force
    /\ pc \in {"plan", "scrape", "update", "save", "write", "stat",
               "sections", "done"}
    /\ Range(allPosts) \subseteq DOMAIN loaded

\* C28: a run without -force that finds every listed slug in the ledger
\* goes from the diff to its end, fetches no article, and no step of it
\* changes the checkpoint file or the archive file (a missing archive stays
\* missing).
C28_NothingToDoWritesNothing ==
    [][UpToDate =>
           /\ pc' \in {"done", "idle"}
           /\ fetched' = {}
           /\ cpFile' = cpFile
           /\ archive' = archive]_vars

\* such a run has ended its work while the archive file is missing
C28_Witness ==
    /\ UpToDate
    /\ pc = "done"
    /\ fetched = {}
    /\ allPosts # <<>>
    /\ ~archive.exists
    /\ cpFile = JsonFile(loaded)

\* C29: between runs that were never interrupted and had no file error, from
\* no checkpoint file and no archive file on, the slugs of the checkpoint
\* file are the slugs that have a section in the archive, and every such
\* slug has one section only.
C29_LedgerMatchesArchive ==
    pc = "idle" =>
        /\ LedgerSlugs(cpFile) = ArchiveSlugs(archive)
        /\ Len(archive.secs) = Cardinality(ArchiveSlugs(archive))

\* after a run with -force and a run without, both with work done, the
\* ledger and the archive hold the same two slugs or more
C29_Witness ==
    /\ pc = "idle"
    /\ clock >= 2
    /\ prev.status = "ok"
    /\ Cardinality(LedgerSlugs(cpFile)) >= 2
    /\ LedgerSlugs(cpFile) = ArchiveSlugs(archive)
    /\ \E s, u \in LedgerSlugs(cpFile) :
           cpFile.data[s].ScrapedAt # cpFile.data[u].ScrapedAt

\* the run that just ended is the one recorded in httpHist
EndedNow(h) == pc = "idle" /\ prev.status = "ok" /\ h.run = clock

\* C30: fetchPage returns an error for a transport failure and for nothing
\* else; an extraction whose response had an error status (404, 500) and
\* whose body was converted returns no error; when its run has ended the
\* slug has an entry stamped by that run in the checkpoint file and a section
\* in the archive; and the next run, if without -force, does not fetch it.
C30_ErrorStatusIsSuccess ==
    /\ \A r \in Responses : (fetchPage(r) = "nil") <=> (r.transport = "ok")
    /\ \A h \in httpHist :
           /\ h.status >= 400
           /\ <<h.slug, h.run>> \in okHist
           /\ (h.run = clock /\ pc \in {"update", "save", "write", "stat",
                                        "sections", "done"}) =>
                  h.slug \in DOMAIN scraped
           /\ EndedNow(h) =>
                  /\ h.slug \in LedgerSlugs(cpFile)
                  /\ cpFile.data[h.slug].ScrapedAt = h.run
                  /\ h.slug \in ArchiveSlugs(archive)
           /\ (h.run = clock - 1 /\ ~force /\ Planned) =>
                  /\ h.slug \notin Range(toScrape)
                  /\ h.slug \notin fetched

\* a run without -force has left out a listed slug that the run before
\* recorded from a 404 response
C30_Witness ==
    /\ ~force
    /\ pc = "done"
    /\ \E h \in httpHist :
           /\ h.status = 404
           /\ h.run = clock - 1
           /\ h.slug \in Range(allPosts)
           /\ h.slug \in LedgerSlugs(cpFile)
           /\ h.slug \in ArchiveSlugs(archive)
           /\ h.slug \notin fetched

====
